---- MODULE Spec2Model ----
(***************************************************************************)
(* rust-rocket: the sync-tracker client.                                   *)
(*                                                                         *)
(*   - the keyframe store           (src/src/track.rs, interpolation.rs)   *)
(*   - the frame decoder / encoder  (src/src/client.rs, RocketClient)      *)
(*   - the reconnecting session     (src/src/rocket.rs, Rocket)            *)
(*                                                                         *)
(* Bytes are integers 0..255, a byte stream is a sequence of bytes.  f32   *)
(* values are decoded from their IEEE-754 bit pattern into exact rationals *)
(* <<numerator, denominator>>; the arithmetic on them is exact (the inputs *)
(* are small dyadic numbers), rounding is not modelled.                    *)
(***************************************************************************)
EXTENDS Integers, Sequences, FiniteSets, TLC

\* ------------------------------------------------------------------------
\* Bounds of the model
\* ------------------------------------------------------------------------
MaxFrames == 2       \* frames the tracker sends on one connection
MaxOutBytes == 12    \* bytes the client may write on one connection
MaxNow == 2          \* the clock stops after this many seconds

\* ------------------------------------------------------------------------
\* Protocol constants (client.rs)
\* ------------------------------------------------------------------------
CLIENT_GREETING == <<104, 101, 108, 108, 111, 44, 32, 115, 121, 110, 99, 116,
                     114, 97, 99, 107, 101, 114, 33>>
SERVER_GREETING == <<104, 101, 108, 108, 111, 44, 32, 100, 101, 109, 111, 33>>

SET_KEY == 0
DELETE_KEY == 1
GET_TRACK == 2
SET_ROW == 3
PAUSE == 4
SAVE_TRACKS == 5

SET_KEY_LEN == 4 + 4 + 4 + 1
DELETE_KEY_LEN == 4 + 4
GET_TRACK_LEN == 4
SET_ROW_LEN == 4
PAUSE_LEN == 1
MAX_COMMAND_LEN == SET_KEY_LEN

NONE == -1           \* Option::None of a position

\* ------------------------------------------------------------------------
\* Sequences and bytes
\* ------------------------------------------------------------------------
Min(S) == CHOOSE x \in S : \A y \in S : x <= y

MinOf(a, b) == IF a <= b THEN a ELSE b

Take(s, n) == SubSeq(s, 1, n)

Drop(s, n) == SubSeq(s, n + 1, Len(s))

RECURSIVE Flatten(_)
Flatten(ss) == IF ss = <<>> THEN <<>> ELSE Head(ss) \o Flatten(Tail(ss))

\* byteorder::BigEndian::write_u32
WriteU32(v) == << (v \div 16777216) % 256, (v \div 65536) % 256,
                  (v \div 256) % 256, v % 256 >>

\* byteorder::ReadBytesExt::read_u32::<BigEndian> on the 4 bytes at 0-based
\* offset off of buffer s
ReadU32(s, off) == s[off + 1] * 16777216 + s[off + 2] * 65536
                   + s[off + 3] * 256 + s[off + 4]

\* ------------------------------------------------------------------------
\* Exact rationals <<n, d>>, d > 0, in lowest terms
\* ------------------------------------------------------------------------
Abs(x) == IF x < 0 THEN -x ELSE x

RECURSIVE GCD(_, _)
GCD(a, b) == IF b = 0 THEN a ELSE GCD(b, a % b)

Rat(n, d) == LET g == GCD(Abs(n), Abs(d))
                 s == IF d < 0 THEN -1 ELSE 1
             IN  << (s * n) \div g, (s * d) \div g >>

RInt(i) == << i, 1 >>
RAdd(a, b) == Rat(a[1] * b[2] + b[1] * a[2], a[2] * b[2])
RSub(a, b) == Rat(a[1] * b[2] - b[1] * a[2], a[2] * b[2])
RMul(a, b) == Rat(a[1] * b[1], a[2] * b[2])
RDiv(a, b) == Rat(a[1] * b[2], a[2] * b[1])
RFloor(a) == a[1] \div a[2]

RECURSIVE Pow2(_)
Pow2(k) == IF k = 0 THEN 1 ELSE 2 * Pow2(k - 1)

\* f32::from_bits of the big-endian bytes b (read_f32::<BigEndian>): sign,
\* 8-bit exponent, 23-bit mantissa.  Zero and the normal numbers below 2^24
\* are decoded; the model sends no other pattern.
F32FromBits(b) ==
    LET sign == b[1] \div 128
        exp  == (b[1] % 128) * 2 + b[2] \div 128
        mant == (b[2] % 128) * 65536 + b[3] * 256 + b[4]
        m    == 8388608 + mant
        mag  == IF exp = 0 /\ mant = 0 THEN RInt(0)
                ELSE IF exp >= 150 THEN RInt(m * Pow2(exp - 150))
                ELSE Rat(m, Pow2(150 - exp))
    IN  IF sign = 1 THEN RSub(RInt(0), mag) ELSE mag

\* ------------------------------------------------------------------------
\* Interpolation (src/src/lowlevel/interpolation.rs)
\* ------------------------------------------------------------------------
\* Mutant: a byte above 3 is taken for the highest kind
Interpolation_from_Clamped(raw) ==
    CASE raw = 0 -> "Step"
      [] raw = 1 -> "Linear"
      [] raw = 2 -> "Smooth"
      [] raw = 3 -> "Ramp"
      [] OTHER   -> "Ramp"

\* impl From<u8> for Interpolation
Interpolation_from(raw) ==
    CASE raw = 0 -> "Step"
      [] raw = 1 -> "Linear"
      [] raw = 2 -> "Smooth"
      [] raw = 3 -> "Ramp"
      [] OTHER   -> "Step"

\* Mutant: Step interpolates as Linear does
interpolate_StepAsLinear(kind, t) ==
    CASE kind = "Step"   -> t
      [] kind = "Linear" -> t
      [] kind = "Smooth" -> RMul(RMul(t, t), RSub(RInt(3), RMul(RInt(2), t)))
      [] kind = "Ramp"   -> RMul(t, t)

interpolate(kind, t) ==
    CASE kind = "Step"   -> RInt(0)
      [] kind = "Linear" -> t
      [] kind = "Smooth" -> RMul(RMul(t, t), RSub(RInt(3), RMul(RInt(2), t)))
      [] kind = "Ramp"   -> RMul(t, t)

\* ------------------------------------------------------------------------
\* Key and Track (src/src/track.rs).  A track is [name, keys]; positions are
\* 0-based as in the source, NONE for Option::None.
\* ------------------------------------------------------------------------
Key_new(row, value, interp) ==
    [row |-> row, value |-> value, interpolation |-> interp]

Track_new(name) == [name |-> name, keys |-> <<>>]

\* Iterator::position: 0-based index of the first element of S, or NONE
Position(S) == IF S = {} THEN NONE ELSE Min(S) - 1

get_exact_position(keys, row) ==
    Position({i \in 1..Len(keys) : keys[i].row = row})

\* Mutant: a new key always goes in front
get_insert_position_Front(keys, row) ==
    IF keys = <<>> THEN NONE ELSE 0

get_insert_position(keys, row) ==
    Position({i \in 1..Len(keys) : keys[i].row >= row})

get_lower_bound_position(keys, row) ==
    LET p == Position({i \in 1..Len(keys) : keys[i].row > row})
    IN  (IF p = NONE THEN Len(keys) ELSE p) - 1

\* Mutant: the key goes in one place further on
VecInsert_After(keys, pos, key) ==
    Take(keys, pos + 1) \o <<key>> \o Drop(keys, pos + 1)

\* Vec::insert(pos, key), pos 0-based
VecInsert(keys, pos, key) ==
    Take(keys, pos) \o <<key>> \o Drop(keys, pos)

\* Mutant: the keys after the removed one are lost too
VecRemove_Truncate(keys, pos) == Take(keys, pos)

\* Vec::remove(pos), pos 0-based
VecRemove(keys, pos) == Take(keys, pos) \o Drop(keys, pos + 1)

\* Mutant: a key is inserted without looking for a key at its row
set_key_NoReplace(keys, key) ==
    LET ins == get_insert_position(keys, key.row)
    IN  IF ins # NONE THEN VecInsert(keys, ins, key)
        ELSE Append(keys, key)

set_key(keys, key) ==
    LET exact == get_exact_position(keys, key.row)
        ins   == get_insert_position(keys, key.row)
    IN  IF exact # NONE THEN [keys EXCEPT ![exact + 1] = key]
        ELSE IF ins # NONE THEN VecInsert(keys, ins, key)
        ELSE Append(keys, key)

delete_key(keys, row) ==
    LET exact == get_exact_position(keys, row)
    IN  IF exact # NONE THEN VecRemove(keys, exact) ELSE keys

\* Mutant: the cast wraps, a negative row gives a number above every row
\* of a key
FloorAsU32_Wrapping(row) ==
    IF RFloor(row) < 0 THEN 2147483647 + RFloor(row) ELSE RFloor(row)

\* `row.floor() as u32`: the cast saturates, a negative row gives 0
FloorAsU32(row) == IF RFloor(row) < 0 THEN 0 ELSE RFloor(row)

\* Mutant: the interpolation kind of the higher key is used
Track_get_value_HigherKind(keys, row) ==
    IF keys = <<>> THEN RInt(0)
    ELSE LET lower_row == FloorAsU32(row)
         IN  IF lower_row <= keys[1].row THEN keys[1].value
             ELSE IF lower_row >= keys[Len(keys)].row THEN keys[Len(keys)].value
             ELSE LET pos    == get_lower_bound_position(keys, lower_row)
                      lower  == keys[pos + 1]
                      higher == keys[pos + 2]
                      t  == RDiv(RSub(row, RInt(lower.row)),
                                 RSub(RInt(higher.row), RInt(lower.row)))
                      it == interpolate(higher.interpolation, t)
                  IN  RAdd(lower.value,
                           RMul(RSub(higher.value, lower.value), it))

Track_get_value(keys, row) ==
    IF keys = <<>> THEN RInt(0)
    ELSE LET lower_row == FloorAsU32(row)
         IN  IF lower_row <= keys[1].row THEN keys[1].value
             ELSE IF lower_row >= keys[Len(keys)].row THEN keys[Len(keys)].value
             ELSE LET pos    == get_lower_bound_position(keys, lower_row)
                      lower  == keys[pos + 1]
                      higher == keys[pos + 2]
                      t  == RDiv(RSub(row, RInt(lower.row)),
                                 RSub(RInt(higher.row), RInt(lower.row)))
                      it == interpolate(lower.interpolation, t)
                  IN  RAdd(lower.value,
                           RMul(RSub(higher.value, lower.value), it))

\* Mutant: the search finds nothing
FindTrack_Never(trs, name) == NONE

\* Tracks::get_track / the name search of get_track_mut: 0-based index of the
\* first track called name, or NONE
FindTrack(trs, name) ==
    Position({i \in 1..Len(trs) : trs[i].name = name})

\* ------------------------------------------------------------------------
\* What the tracker and the application may feed the client
\* ------------------------------------------------------------------------
Names == { <<97>>, <<98>> }                \* track names "a", "b" as UTF-8
F32_ONE == <<63, 128, 0, 0>>               \* the bits of 1.0f32
F32_TWO == <<64, 0, 0, 0>>                 \* the bits of 2.0f32
SeekRows == {2}                            \* rows the tracker seeks to
UnknownOps == {GET_TRACK, 9}               \* opcodes the decoder does not know
ClientRows == {1}                          \* rows the application reports
ReadSizes == {1, 3, MAX_COMMAND_LEN}       \* the most bytes one read returns

FrameSetKey(idx, row, bits, interp) ==
    <<SET_KEY>> \o WriteU32(idx) \o WriteU32(row) \o bits \o <<interp>>
FrameDeleteKey(idx, row) == <<DELETE_KEY>> \o WriteU32(idx) \o WriteU32(row)
FrameSetRow(row) == <<SET_ROW>> \o WriteU32(row)
FramePause(flag) == <<PAUSE, flag>>
FrameSaveTracks == <<SAVE_TRACKS>>

\* The frames the tracker picks from: keys on two tracks (one with an
\* interpolation byte outside 0..3), a deletion, and every other opcode
ServerFrames ==
    { FrameSetKey(0, 1, F32_ONE, 1), FrameSetKey(1, 3, F32_TWO, 7),
      FrameDeleteKey(0, 1) }
    \cup { FrameSetRow(r) : r \in SeekRows }
    \cup { FramePause(1), FrameSaveTracks }
    \cup { <<op>> : op \in UnknownOps }

\* ------------------------------------------------------------------------
\* State
\* ------------------------------------------------------------------------
VARIABLES
    state,      \* RocketClient.state: [tag, bytes]
    cmd,        \* RocketClient.cmd: the accumulation buffer
    tracks,     \* RocketClient.tracks / Rocket.tracks: sequence of [name, keys]
    inbox,      \* bytes the socket holds for the client to read
    wire,       \* bytes of the tracker's latest frame that have not arrived yet
    peer,       \* "open", "closed" (end of stream follows the data), "reset"
    outbox,     \* bytes the client has written to the socket
    sent,       \* the frames the tracker has sent in full on this connection
    pc,         \* "idle"; "hung": poll_events never returns; "aborted": panic;
                \* "handshake": the call waits in connect for the greeting
    io,         \* what the last socket read of the latest poll_events reported
    ret,        \* what the latest call returned
    events,     \* the events poll_events has returned, oldest first (in
                \* SpecKeys: the keys set_key was called with, oldest first)
    client,     \* Rocket.client: "Some" or "None"
    self_row,   \* Rocket.row, an exact rational
    tracker_row,            \* Rocket.tracker_row
    connection_attempted,   \* Rocket.connection_attempted
    now,        \* the monotonic clock
    lastAttempt,            \* when connect was called last
    lastTime,   \* the integer row of the latest undisturbed set_time, or NONE
    obs         \* what the latest call of the session did

cvars == << state, cmd, tracks, inbox, wire, peer, outbox, sent, pc, io, ret,
            events >>

svars == << client, self_row, tracker_row, connection_attempted, now,
            lastAttempt, lastTime, obs >>

vars == << cvars, svars >>

\* ------------------------------------------------------------------------
\* RocketClient (src/src/client.rs)
\* ------------------------------------------------------------------------
ClientState_New == [tag |-> "New", bytes |-> 0]
ClientState_Incomplete(n) == [tag |-> "Incomplete", bytes |-> n]
ClientState_Complete == [tag |-> "Complete", bytes |-> 0]

Event_SetRow(row) == [type |-> "SetRow", row |-> row]
Event_Pause(flag) == [type |-> "Pause", flag |-> flag]
Event_SaveTracks == [type |-> "SaveTracks"]

\* What a read on the non-blocking socket reports: "error" once the
\* connection is reset, "data" when bytes are buffered, "eof" when the peer
\* closed and everything it sent was read, "wouldblock" otherwise (w: the
\* bytes still in flight).
ReadOutcome(in, w, p) ==
    IF p = "reset" THEN "error"
    ELSE IF in # <<>> THEN "data"
    ELSE IF p = "closed" /\ w = <<>> THEN "eof"
    ELSE "wouldblock"

\* Mutant: the body lengths of DELETE_KEY and SET_ROW are exchanged
OpcodeState_Swapped(op) ==
    CASE op = SET_KEY     -> ClientState_Incomplete(SET_KEY_LEN)
      [] op = DELETE_KEY  -> ClientState_Incomplete(SET_ROW_LEN)
      [] op = SET_ROW     -> ClientState_Incomplete(DELETE_KEY_LEN)
      [] op = PAUSE       -> ClientState_Incomplete(PAUSE_LEN)
      [] op = SAVE_TRACKS -> ClientState_Complete
      [] OTHER            -> ClientState_Complete

\* Mutant: an unknown opcode is taken to have a one-byte body
OpcodeState_UnknownBody(op) ==
    CASE op = SET_KEY     -> ClientState_Incomplete(SET_KEY_LEN)
      [] op = DELETE_KEY  -> ClientState_Incomplete(DELETE_KEY_LEN)
      [] op = SET_ROW     -> ClientState_Incomplete(SET_ROW_LEN)
      [] op = PAUSE       -> ClientState_Incomplete(PAUSE_LEN)
      [] op = SAVE_TRACKS -> ClientState_Complete
      [] OTHER            -> ClientState_Incomplete(1)

\* The opcode dispatch of poll_event_new: the state after the opcode byte
OpcodeState(op) ==
    CASE op = SET_KEY     -> ClientState_Incomplete(SET_KEY_LEN)
      [] op = DELETE_KEY  -> ClientState_Incomplete(DELETE_KEY_LEN)
      [] op = SET_ROW     -> ClientState_Incomplete(SET_ROW_LEN)
      [] op = PAUSE       -> ClientState_Incomplete(PAUSE_LEN)
      [] op = SAVE_TRACKS -> ClientState_Complete
      [] OTHER            -> ClientState_Complete

\* Mutant: the read takes the newest byte the socket holds, not the oldest
poll_event_new_Newest(st, c, in, rd) ==
    IF rd = "data"
    THEN LET c2 == c \o << in[Len(in)] >>
         IN  [state |-> OpcodeState(c2[1]), cmd |-> c2,
              inbox |-> Take(in, Len(in) - 1), rr |-> "Incomplete"]
    ELSE [state |-> st, cmd |-> c, inbox |-> in,
          rr |-> IF rd = "wouldblock" THEN "None" ELSE "Err"]

\* poll_event_new: read_exact of one byte.  rd is what the read reports.
\* Gives the new state, buffer and socket contents, and rr: "Incomplete",
\* "None" or "Err".
poll_event_new(st, c, in, rd) ==
    IF rd = "data"
    THEN LET c2 == c \o Take(in, 1)
         IN  [state |-> OpcodeState(c2[1]), cmd |-> c2, inbox |-> Drop(in, 1),
              rr |-> "Incomplete"]
    ELSE [state |-> st, cmd |-> c, inbox |-> in,
          rr |-> IF rd = "wouldblock" THEN "None" ELSE "Err"]

\* Mutant: a short read leaves the remaining-byte count as it was
poll_event_incomplete_NoDecrement(st, c, in, rd, n) ==
    IF rd \in {"data", "eof"}
    THEN LET bytes_read == IF rd = "eof" THEN 0 ELSE n
         IN  [state |-> IF st.bytes - bytes_read > 0
                        THEN ClientState_Incomplete(st.bytes)
                        ELSE ClientState_Complete,
              cmd |-> c \o Take(in, bytes_read),
              inbox |-> Drop(in, bytes_read),
              rr |-> "Incomplete"]
    ELSE [state |-> st, cmd |-> c, inbox |-> in,
          rr |-> IF rd = "wouldblock" THEN "None" ELSE "Err"]

\* Mutant: the bytes of a read are put in front of the buffer
poll_event_incomplete_Prepend(st, c, in, rd, n) ==
    IF rd \in {"data", "eof"}
    THEN LET bytes_read == IF rd = "eof" THEN 0 ELSE n
         IN  [state |-> IF st.bytes - bytes_read > 0
                        THEN ClientState_Incomplete(st.bytes - bytes_read)
                        ELSE ClientState_Complete,
              cmd |-> Take(in, bytes_read) \o c,
              inbox |-> Drop(in, bytes_read),
              rr |-> "Incomplete"]
    ELSE [state |-> st, cmd |-> c, inbox |-> in,
          rr |-> IF rd = "wouldblock" THEN "None" ELSE "Err"]

\* Mutant: a read that would block drops the partial frame
poll_event_incomplete_WouldBlockClears(st, c, in, rd, n) ==
    IF rd \in {"data", "eof"}
    THEN LET bytes_read == IF rd = "eof" THEN 0 ELSE n
         IN  [state |-> IF st.bytes - bytes_read > 0
                        THEN ClientState_Incomplete(st.bytes - bytes_read)
                        ELSE ClientState_Complete,
              cmd |-> c \o Take(in, bytes_read),
              inbox |-> Drop(in, bytes_read),
              rr |-> "Incomplete"]
    ELSE [state |-> IF rd = "wouldblock" THEN ClientState_New ELSE st,
          cmd |-> IF rd = "wouldblock" THEN <<>> ELSE c, inbox |-> in,
          rr |-> IF rd = "wouldblock" THEN "None" ELSE "Err"]

\* poll_event_incomplete: one read of at most `bytes` bytes that returns
\* n bytes (n = 0 at end of stream).
poll_event_incomplete(st, c, in, rd, n) ==
    IF rd \in {"data", "eof"}
    THEN LET bytes_read == IF rd = "eof" THEN 0 ELSE n
         IN  [state |-> IF st.bytes - bytes_read > 0
                        THEN ClientState_Incomplete(st.bytes - bytes_read)
                        ELSE ClientState_Complete,
              cmd |-> c \o Take(in, bytes_read),
              inbox |-> Drop(in, bytes_read),
              rr |-> "Incomplete"]
    ELSE [state |-> st, cmd |-> c, inbox |-> in,
          rr |-> IF rd = "wouldblock" THEN "None" ELSE "Err"]

\* Cursor reads of process_event: TRUE when the buffer holds n bytes from
\* 0-based offset off
CursorHas(c, off, n) == Len(c) >= off + n

\* process_event: parse the buffered frame.  rr is "None", "Some" (with ev)
\* or "Panic" (an index out of bounds, or the unreachable!() of poll_event
\* when a cursor read runs out of bytes); a panic leaves the client as it is.
process_event(c, trs) ==
    LET panic == [state |-> ClientState_Complete, cmd |-> c, tracks |-> trs,
                  rr |-> "Panic", ev |-> Event_SaveTracks]
        done(trs2, rr, ev) == [state |-> ClientState_New, cmd |-> <<>>,
                               tracks |-> trs2, rr |-> rr, ev |-> ev]
    IN  IF ~CursorHas(c, 0, 1) THEN panic
        ELSE CASE c[1] = SET_KEY ->
                    IF ~CursorHas(c, 1, 4) THEN panic
                    ELSE LET index == ReadU32(c, 1)
                         IN  IF index >= Len(trs) \/ ~CursorHas(c, 5, 9) THEN panic
                             ELSE LET row   == ReadU32(c, 5)
                                      value == F32FromBits(SubSeq(c, 10, 13))
                                      interpolation == Interpolation_from(c[14])
                                      key == Key_new(row, value, interpolation)
                                  IN  done([trs EXCEPT ![index + 1].keys =
                                               set_key(@, key)],
                                           "None", Event_SaveTracks)
               [] c[1] = DELETE_KEY ->
                    IF ~CursorHas(c, 1, 4) THEN panic
                    ELSE LET index == ReadU32(c, 1)
                         IN  IF index >= Len(trs) \/ ~CursorHas(c, 5, 4) THEN panic
                             ELSE LET row == ReadU32(c, 5)
                                  IN  done([trs EXCEPT ![index + 1].keys =
                                               delete_key(@, row)],
                                           "None", Event_SaveTracks)
               [] c[1] = SET_ROW ->
                    IF ~CursorHas(c, 1, 4) THEN panic
                    ELSE done(trs, "Some", Event_SetRow(ReadU32(c, 1)))
               [] c[1] = PAUSE ->
                    IF ~CursorHas(c, 1, 1) THEN panic
                    ELSE done(trs, "Some", Event_Pause(c[2] = 1))
               [] c[1] = SAVE_TRACKS -> done(trs, "Some", Event_SaveTracks)
               [] OTHER -> done(trs, "None", Event_SaveTracks)

\* poll_event: one turn of the poll_events loop.  Every read of the call
\* returns at most m bytes.  Gives the client and socket after the turn, rr
\* (the ReceiveResult, "Err" or "Panic"), the event and what the read reported.
poll_event(st, c, trs, in, w, p, m, io0) ==
    LET rd == ReadOutcome(in, w, p)
    IN  CASE st.tag = "New" ->
               LET r == poll_event_new(st, c, in, rd)
               IN  [state |-> r.state, cmd |-> r.cmd, tracks |-> trs,
                    inbox |-> r.inbox, rr |-> r.rr, ev |-> Event_SaveTracks,
                    io |-> rd]
          [] st.tag = "Incomplete" ->
               LET n == MinOf(MinOf(st.bytes, Len(in)), m)
                   r == poll_event_incomplete(st, c, in, rd, n)
               IN  [state |-> r.state, cmd |-> r.cmd, tracks |-> trs,
                    inbox |-> r.inbox, rr |-> r.rr, ev |-> Event_SaveTracks,
                    io |-> rd]
          [] st.tag = "Complete" ->
               LET r == process_event(c, trs)
               IN  [state |-> r.state, cmd |-> r.cmd, tracks |-> r.tracks,
                    inbox |-> in, rr |-> r.rr, ev |-> r.ev, io |-> io0]

\* RocketClient::poll_events: the loop over poll_event, to its return.  rr
\* is "None", "Some", "Err", "Panic", or "Hang" when the loop comes back to
\* the state it was in with the socket unchanged, so that it never ends.
RECURSIVE RocketClient_poll_events(_, _, _, _, _, _, _, _)
RocketClient_poll_events(st, c, trs, in, w, p, m, io0) ==
    LET r == poll_event(st, c, trs, in, w, p, m, io0)
    IN  IF r.rr # "Incomplete" THEN r
        ELSE IF r.state = st /\ r.cmd = c /\ r.inbox = in
             THEN [r EXCEPT !.rr = "Hang"]
        ELSE RocketClient_poll_events(r.state, r.cmd, r.tracks, r.inbox,
                                      w, p, m, r.io)

\* The bytes get_track_mut writes: the header, then the name
GetTrackHeader(name) == <<GET_TRACK>> \o WriteU32(Len(name))

\* Mutant: the row is written least significant byte first
SetRowBytes_LittleEndian(row) ==
    LET b == WriteU32(row) IN << SET_ROW, b[4], b[3], b[2], b[1] >>

\* The bytes set_row writes
SetRowBytes(row) == <<SET_ROW>> \o WriteU32(row)

\* ------------------------------------------------------------------------
\* The client on one connection: Spec
\* ------------------------------------------------------------------------
Ret_Init == [op |-> "new", kind |-> "Ok"]
Ret(op, kind) == [op |-> op, kind |-> kind]

\* What a call of the session did: connected, whether it began with a
\* client; wrote, the bytes it wrote to the socket; fault, whether a read or
\* a write of it failed; attempted, whether it called connect; row0, the
\* tracker row it began with; early, whether it began without a client less
\* than the cooldown after the previous call of connect; gap, the time from
\* the previous call of connect to the one it made (NONE if there is none);
\* same, whether it is a set_time for the integer row of the set_time before
\* it with no tracker event, failure or disconnection in between.
Obs_Init == [connected |-> FALSE, wrote |-> <<>>, fault |-> FALSE,
             attempted |-> TRUE, row0 |-> 0, early |-> FALSE, gap |-> NONE,
             same |-> FALSE]

Init ==
    /\ state = ClientState_New
    /\ cmd = <<>>
    /\ tracks = <<>>
    /\ inbox = <<>>
    /\ wire = <<>>
    /\ peer = "open"
    /\ outbox = <<>>
    /\ sent = <<>>
    /\ pc = "idle"
    /\ io = "none"
    /\ ret = Ret_Init
    /\ events = <<>>
    /\ client = "Some"
    /\ self_row = RInt(0)
    /\ tracker_row = 0
    /\ connection_attempted = 0
    /\ now = 0
    /\ lastAttempt = 0
    /\ lastTime = NONE
    /\ obs = Obs_Init

\* The tracker sends one more frame (it sends the next one once the
\* previous one has left)
ServerSend(f) ==
    /\ pc # "aborted" /\ peer = "open" /\ wire = <<>>
    /\ Len(sent) < MaxFrames
    /\ wire' = f
    /\ sent' = Append(sent, f)
    /\ UNCHANGED << state, cmd, tracks, inbox, peer, outbox, pc, io, ret, events >>
    /\ UNCHANGED svars

\* The tracker closes the connection, possibly in the middle of a frame:
\* what it had not yet put on the wire is never sent
ServerClose ==
    /\ pc # "aborted" /\ peer = "open"
    /\ peer' = "closed"
    /\ wire' = <<>>
    /\ sent' = IF wire = <<>> THEN sent ELSE Take(sent, Len(sent) - 1)
    /\ UNCHANGED << state, cmd, tracks, inbox, outbox, pc, io, ret, events >>
    /\ UNCHANGED svars

\* The connection breaks: unread data is lost, reads and writes fail
ConnReset ==
    /\ pc # "aborted" /\ peer \in {"open", "closed"}
    /\ peer' = "reset"
    /\ inbox' = <<>>
    /\ wire' = <<>>
    /\ UNCHANGED << state, cmd, tracks, outbox, sent, pc, io, ret, events >>
    /\ UNCHANGED svars

\* Mutant: the new track is put in front of the list
Vec_push_Front(trs, t) == <<t>> \o trs

\* Vec::push of get_track_mut: the new track goes to the end of the list
Vec_push(trs, t) == Append(trs, t)

\* Mutant: the request for a new name is written and no track is added
RocketClient_get_track_mut_NoPush(trs, out, p, name, brk) ==
    IF FindTrack(trs, name) # NONE
    THEN [tracks |-> trs, outbox |-> out, peer |-> p, rr |-> "Ok",
          idx |-> FindTrack(trs, name)]
    ELSE IF p = "reset"
    THEN [tracks |-> trs, outbox |-> out, peer |-> p, rr |-> "Err",
          idx |-> NONE]
    ELSE IF brk
    THEN [tracks |-> trs, outbox |-> out \o GetTrackHeader(name),
          peer |-> "reset", rr |-> "Err", idx |-> NONE]
    ELSE [tracks |-> trs,
          outbox |-> out \o GetTrackHeader(name) \o name,
          peer |-> p, rr |-> "Ok", idx |-> Len(trs)]

\* Mutant: the track is added before the request is written, and stays when
\* the write fails
RocketClient_get_track_mut_PushFirst(trs, out, p, name, brk) ==
    IF FindTrack(trs, name) # NONE
    THEN [tracks |-> trs, outbox |-> out, peer |-> p, rr |-> "Ok",
          idx |-> FindTrack(trs, name)]
    ELSE IF p = "reset"
    THEN [tracks |-> Vec_push(trs, Track_new(name)), outbox |-> out,
          peer |-> p, rr |-> "Err", idx |-> NONE]
    ELSE IF brk
    THEN [tracks |-> Vec_push(trs, Track_new(name)),
          outbox |-> out \o GetTrackHeader(name),
          peer |-> "reset", rr |-> "Err", idx |-> NONE]
    ELSE [tracks |-> Vec_push(trs, Track_new(name)),
          outbox |-> out \o GetTrackHeader(name) \o name,
          peer |-> p, rr |-> "Ok", idx |-> Len(trs)]

\* RocketClient::get_track_mut(name) on the track list trs of a client whose
\* socket holds the written bytes out and has status p.  brk: the connection
\* breaks between the write of the header and the write of the name.  Gives
\* the track list, the socket, rr ("Ok" or "Err") and the 0-based index of
\* the track the call returns.
RocketClient_get_track_mut(trs, out, p, name, brk) ==
    IF FindTrack(trs, name) # NONE
    THEN [tracks |-> trs, outbox |-> out, peer |-> p, rr |-> "Ok",
          idx |-> FindTrack(trs, name)]
    ELSE IF p = "reset"
    THEN [tracks |-> trs, outbox |-> out, peer |-> p, rr |-> "Err",
          idx |-> NONE]
    ELSE IF brk
    THEN [tracks |-> trs, outbox |-> out \o GetTrackHeader(name),
          peer |-> "reset", rr |-> "Err", idx |-> NONE]
    ELSE [tracks |-> Vec_push(trs, Track_new(name)),
          outbox |-> out \o GetTrackHeader(name) \o name,
          peer |-> p, rr |-> "Ok", idx |-> Len(trs)]

\* TRUE when get_track_mut(name) writes to the socket, so that the
\* connection can break under it
WritesTrack(trs, p, name) == FindTrack(trs, name) = NONE /\ p # "reset"

get_track_mut(name, brk) ==
    /\ pc = "idle"
    /\ brk => WritesTrack(tracks, peer, name)
    /\ FindTrack(tracks, name) = NONE =>
           Len(outbox) + 1 + GET_TRACK_LEN + Len(name) <= MaxOutBytes
    /\ LET r == RocketClient_get_track_mut(tracks, outbox, peer, name, brk)
       IN  /\ tracks' = r.tracks
           /\ outbox' = r.outbox
           /\ peer' = r.peer
           /\ inbox' = IF r.peer = "reset" THEN <<>> ELSE inbox
           /\ wire' = IF r.peer = "reset" THEN <<>> ELSE wire
           /\ ret' = [op |-> "get_track_mut", kind |-> r.rr, name |-> name,
                      idx |-> r.idx]
    /\ UNCHANGED << state, cmd, sent, pc, io, events >>
    /\ UNCHANGED svars

\* RocketClient::set_row(row) on a socket that holds the written bytes out
\* and has status p
RocketClient_set_row(out, p, r) ==
    IF p = "reset" THEN [outbox |-> out, rr |-> "Err"]
    ELSE [outbox |-> out \o SetRowBytes(r), rr |-> "Ok"]

set_row(r) ==
    /\ pc = "idle"
    /\ Len(outbox) + 1 + SET_ROW_LEN <= MaxOutBytes
    /\ LET w == RocketClient_set_row(outbox, peer, r)
       IN  /\ outbox' = w.outbox
           /\ ret' = [op |-> "set_row", kind |-> w.rr, row |-> r]
    /\ UNCHANGED << state, cmd, tracks, inbox, wire, peer, sent, pc, io, events >>
    /\ UNCHANGED svars

\* RocketClient::poll_events, the whole call.  k: how many of the bytes in
\* flight reach the socket in time for the reads of this call; m: the most
\* bytes one read of this call returns.
poll_events(k, m) ==
    /\ pc = "idle"
    /\ k \in 0..Len(wire)
    /\ LET r == RocketClient_poll_events(state, cmd, tracks,
                                         inbox \o Take(wire, k), Drop(wire, k),
                                         peer, m, "none")
       IN  /\ wire' = Drop(wire, k)
           /\ state' = r.state /\ cmd' = r.cmd /\ tracks' = r.tracks
           /\ inbox' = r.inbox /\ io' = r.io
           /\ CASE r.rr = "None" -> /\ pc' = "idle"
                                    /\ ret' = Ret("poll_events", "None")
                                    /\ UNCHANGED events
                [] r.rr = "Some" -> /\ pc' = "idle"
                                    /\ ret' = [op |-> "poll_events",
                                               kind |-> "Some", ev |-> r.ev]
                                    /\ events' = Append(events, r.ev)
                [] r.rr = "Err"  -> /\ pc' = "idle"
                                    /\ ret' = Ret("poll_events", "Err")
                                    /\ UNCHANGED events
                [] r.rr = "Hang" -> /\ pc' = "hung"
                                    /\ UNCHANGED << ret, events >>
                [] r.rr = "Panic" -> /\ pc' = "aborted"
                                     /\ UNCHANGED << ret, events >>
    /\ UNCHANGED << peer, outbox, sent >>
    /\ UNCHANGED svars

\* A poll_events call that spins on end of stream ends when the connection
\* is reset under it: the next read fails
poll_events_reset ==
    /\ pc = "hung" /\ peer = "reset"
    /\ pc' = "idle"
    /\ io' = "error"
    /\ ret' = Ret("poll_events", "Err")
    /\ UNCHANGED << state, cmd, tracks, inbox, wire, peer, outbox, sent, events >>
    /\ UNCHANGED svars

Next ==
    \/ \E f \in ServerFrames : ServerSend(f)
    \/ ServerClose
    \/ ConnReset
    \/ \E name \in Names, brk \in BOOLEAN : get_track_mut(name, brk)
    \/ \E row \in ClientRows : set_row(row)
    \/ \E k \in 0..(1 + MAX_COMMAND_LEN), m \in ReadSizes : poll_events(k, m)
    \/ poll_events_reset

Spec == Init /\ [][Next]_vars

\* ------------------------------------------------------------------------
\* Rocket, the session (src/src/rocket.rs, client build): SpecRocket.
\* Its client is the client above on the session's own track list; the clock
\* counts whole seconds.
\* ------------------------------------------------------------------------
SECS_PER_MINUTE == 60
ROWS_PER_BEAT == 8
COOLDOWN == 1            \* Duration::from_secs(1)
Bpm == 120               \* the bpm the application passes to Rocket::new
DurationUnits == 32      \* set_time takes its time in 1/32 of a second
Times == {0, 4, 5}       \* the times the application reports: rows 0, 2, 5/2
ConnectTicks == {0, 1}   \* how long the connect of Rocket::new may take
\* How many bytes of the frame in flight w arrive in time for a poll: the
\* opcode alone (part), or all there is
Arrivals(w, part) == IF part THEN MinOf(1, Len(w)) ELSE Len(w)

\* Rocket.bps as Rocket::new computes it
bps == RDiv(RInt(Bpm), RInt(SECS_PER_MINUTE))

\* `self.row as u32`: the cast truncates and saturates
AsU32(r) == IF r[1] < 0 THEN 0 ELSE r[1] \div r[2]

\* The track the application of the session asks for
SessionNames == { <<97>> }

\* The frames the tracker sends to a session
SessionFrames ==
    { FrameSetKey(0, 1, F32_ONE, 1), FrameSetRow(2), FramePause(1),
      FrameSaveTracks }

\* Mutant: a new client takes over the decoder state and the buffer of the
\* client before it
Self_new_Stale == [state |-> state, cmd |-> cmd]

\* The decoder of the client RocketClient::connect builds: awaiting an
\* opcode, with an empty buffer
Self_new == [state |-> ClientState_New, cmd |-> <<>>]

\* Mutant: the client stays after an error
ClientDropped_Kept ==
    UNCHANGED << client, state, cmd, inbox, wire, peer, outbox, sent >>

\* The client is dropped: its socket is closed and its decoder is gone
ClientDropped ==
    /\ client' = "None"
    /\ state' = ClientState_New
    /\ cmd' = <<>>
    /\ inbox' = <<>>
    /\ wire' = <<>>
    /\ peer' = "none"
    /\ outbox' = <<>>
    /\ sent' = <<>>

\* Rocket::new, for each outcome ok of connect and each time d it takes: the
\* attempt is made first, connection_attempted is taken after it
InitRocket ==
    \E ok \in BOOLEAN, d \in ConnectTicks :
        /\ client = IF ok THEN "Some" ELSE "None"
        /\ peer = IF ok THEN "open" ELSE "none"
        /\ state = ClientState_New
        /\ cmd = <<>>
        /\ tracks = <<>>
        /\ inbox = <<>>
        /\ wire = <<>>
        /\ outbox = <<>>
        /\ sent = <<>>
        /\ pc = "idle"
        /\ io = "none"
        /\ ret = Ret("Rocket_new", "Ok")
        /\ events = <<>>
        /\ self_row = RInt(0)
        /\ tracker_row = 0
        /\ connection_attempted = d
        /\ now = d
        /\ lastAttempt = 0
        /\ lastTime = NONE
        /\ obs = Obs_Init

\* The tracker sends a frame to the session (it sends the next one once the
\* previous one has left)
TrackerSend(f) ==
    /\ pc # "aborted" /\ peer = "open" /\ wire = <<>>
    /\ wire' = f
    /\ UNCHANGED << state, cmd, tracks, inbox, peer, outbox, sent, pc, io, ret,
                    events >>
    /\ UNCHANGED svars

\* Time passes
Tick ==
    /\ now < MaxNow
    /\ now' = now + 1
    /\ UNCHANGED cvars
    /\ UNCHANGED << client, self_row, tracker_row, connection_attempted,
                    lastAttempt, lastTime, obs >>

\* Mutant: a track that is not connected has no value
Tracks_get_value_Zero(trs, name, r) == RInt(0)

\* The None arm of get_value: Tracks::get_track, then Track::get_value, or 0
Tracks_get_value(trs, name, r) ==
    IF FindTrack(trs, name) = NONE THEN RInt(0)
    ELSE Track_get_value(trs[FindTrack(trs, name) + 1].keys, r)

\* Rocket::get_value(name).  brk: the connection breaks in the middle of the
\* GET_TRACK request.
Rocket_get_value(name, brk) ==
    /\ pc = "idle"
    /\ brk => (client = "Some" /\ WritesTrack(tracks, peer, name))
    /\ (client = "Some" /\ FindTrack(tracks, name) = NONE) =>
           Len(outbox) + 1 + GET_TRACK_LEN + Len(name) <= MaxOutBytes
    /\ LET r == RocketClient_get_track_mut(tracks, outbox, peer, name, brk)
           base == [connected |-> client = "Some", wrote |-> <<>>,
                    fault |-> FALSE, attempted |-> FALSE,
                    row0 |-> tracker_row, early |-> FALSE, gap |-> NONE,
                    same |-> FALSE]
           value(v) == [op |-> "Rocket_get_value", kind |-> "Value",
                        name |-> name, value |-> v]
       IN  IF client = "Some" /\ r.rr = "Ok"
           THEN /\ tracks' = r.tracks
                /\ outbox' = r.outbox
                /\ ret' = value(Track_get_value(r.tracks[r.idx + 1].keys,
                                                self_row))
                /\ obs' = [base EXCEPT
                              !.wrote = Drop(r.outbox, Len(outbox))]
                /\ UNCHANGED << client, state, cmd, inbox, wire, peer, sent,
                                lastTime >>
           ELSE IF client = "Some"
           THEN /\ ClientDropped
                /\ tracks' = r.tracks
                /\ ret' = value(RInt(0))
                /\ obs' = [base EXCEPT
                              !.wrote = Drop(r.outbox, Len(outbox)),
                              !.fault = TRUE]
                /\ lastTime' = NONE
           ELSE /\ ret' = value(Tracks_get_value(tracks, name, self_row))
                /\ obs' = base
                /\ UNCHANGED << client, state, cmd, tracks, inbox, wire,
                                peer, outbox, sent, lastTime >>
    /\ UNCHANGED << pc, io, events, self_row, tracker_row,
                    connection_attempted, now, lastAttempt >>

\* Mutant: set_time sends the row every time
RowChanged_Always(r, tr) == TRUE

\* The comparison of set_time: the row is sent when it is not the tracker's
RowChanged(r, tr) == r # tr

\* Rocket::set_time(t), t in 1/DurationUnits of a second
Rocket_set_time(t) ==
    /\ pc = "idle"
    /\ LET beat == RMul(Rat(t, DurationUnits), bps)
           newrow == RMul(beat, RInt(ROWS_PER_BEAT))
           r == AsU32(newrow)
           send == client = "Some" /\ RowChanged(r, tracker_row)
           w == RocketClient_set_row(outbox, peer, r)
           base == [connected |-> client = "Some", wrote |-> <<>>,
                    fault |-> FALSE, attempted |-> FALSE,
                    row0 |-> tracker_row, early |-> FALSE, gap |-> NONE,
                    same |-> client = "Some" /\ lastTime = r]
       IN  /\ self_row' = newrow
           /\ send => Len(outbox) + 1 + SET_ROW_LEN <= MaxOutBytes
           /\ IF send /\ w.rr = "Ok"
              THEN /\ outbox' = w.outbox
                   /\ tracker_row' = r
                   /\ lastTime' = r
                   /\ obs' = [base EXCEPT !.wrote = SetRowBytes(r)]
                   /\ UNCHANGED << client, state, cmd, inbox, wire, peer,
                                   sent >>
              ELSE IF send
              THEN /\ ClientDropped
                   /\ lastTime' = NONE
                   /\ obs' = [base EXCEPT !.fault = TRUE]
                   /\ UNCHANGED tracker_row
              ELSE /\ lastTime' = IF client = "Some" THEN r ELSE NONE
                   /\ obs' = base
                   /\ UNCHANGED << client, state, cmd, inbox, wire, peer,
                                   outbox, sent, tracker_row >>
    /\ ret' = Ret("Rocket_set_time", "Ok")
    /\ UNCHANGED << tracks, pc, io, events, connection_attempted, now,
                    lastAttempt >>

\* Mutant: connect is tried again as soon as the client is gone
CooldownElapsed_Always(elapsed) == TRUE

\* Mutant: the comparison of the cooldown is the wrong way round
CooldownElapsed_Reversed(elapsed) == elapsed < COOLDOWN

\* The guard of the None arm of poll_events: connect is tried again once
\* connection_attempted.elapsed() is not below one second
CooldownElapsed(elapsed) == ~(elapsed < COOLDOWN)

\* Mutant: a SetRow event leaves the tracker row as it is
TrackerRowAfter_Keep(ev, tr) == tr

\* The tracker row after the event ev of the client is translated
TrackerRowAfter(ev, tr) == IF ev.type = "SetRow" THEN ev.row ELSE tr

\* Mutant: SaveTracks is handled inside the session and Pause is passed on
\* in its place
Event_from_Shifted(ev) ==
    CASE ev.type = "SetRow" ->
            [op |-> "Rocket_poll_events", kind |-> "Seek", row |-> ev.row,
             to |-> RDiv(RDiv(RInt(ev.row), RInt(ROWS_PER_BEAT)), bps)]
      [] ev.type = "Pause" ->
            [op |-> "Rocket_poll_events", kind |-> "SaveTracks"]
      [] ev.type = "SaveTracks" ->
            [op |-> "Rocket_poll_events", kind |-> "SaveTracks"]

\* The translation of an event of the client into an event of the session
Event_from(ev) ==
    CASE ev.type = "SetRow" ->
            [op |-> "Rocket_poll_events", kind |-> "Seek", row |-> ev.row,
             to |-> RDiv(RDiv(RInt(ev.row), RInt(ROWS_PER_BEAT)), bps)]
      [] ev.type = "Pause" ->
            [op |-> "Rocket_poll_events", kind |-> "Pause", flag |-> ev.flag]
      [] ev.type = "SaveTracks" ->
            [op |-> "Rocket_poll_events", kind |-> "SaveTracks"]

\* The Some arm of poll_events on the result r of the client's poll_events
\* (r.rr is not "Err"): what the session returns and remembers
Rocket_poll_events_Some(r) ==
    CASE r.rr = "Some" ->
            [pc |-> "idle", ret |-> Event_from(r.ev),
             tracker_row |-> TrackerRowAfter(r.ev, tracker_row)]
      [] r.rr = "None" ->
            [pc |-> "idle", ret |-> Ret("Rocket_poll_events", "None"),
             tracker_row |-> tracker_row]
      [] r.rr = "Hang" ->
            [pc |-> "hung", ret |-> ret, tracker_row |-> tracker_row]
      [] r.rr = "Panic" ->
            [pc |-> "aborted", ret |-> ret, tracker_row |-> tracker_row]

\* Mutant: poll_events returns NotConnected from the call that has connected
Rocket_poll_events_Connected_NotYet(f) ==
    /\ client' = "Some"
    /\ state' = f.state /\ cmd' = f.cmd /\ tracks' = f.tracks
    /\ inbox' = f.inbox /\ wire' = <<>>
    /\ peer' = "open" /\ outbox' = <<>> /\ sent' = <<>>
    /\ io' = f.io
    /\ pc' = "idle"
    /\ ret' = Ret("Rocket_poll_events", "NotConnected")
    /\ UNCHANGED tracker_row

\* The first turn of the loop on a new connection, f being the result of the
\* client's poll_events on it
Rocket_poll_events_Connected(f) ==
    /\ client' = "Some"
    /\ state' = f.state /\ cmd' = f.cmd /\ tracks' = f.tracks
    /\ inbox' = f.inbox /\ wire' = <<>>
    /\ peer' = "open" /\ outbox' = <<>> /\ sent' = <<>>
    /\ io' = f.io
    /\ pc' = Rocket_poll_events_Some(f).pc
    /\ ret' = Rocket_poll_events_Some(f).ret
    /\ tracker_row' = Rocket_poll_events_Some(f).tracker_row

\* What a call of connect comes to: "Ok", a client; "Err", an error; "Wait",
\* the tracker has accepted the connection and has not sent its greeting, so
\* that the read_exact of the handshake, on a socket that is still blocking,
\* does not return
ConnectOutcomes == {"Ok", "Err", "Wait"}

\* The loop of Rocket::poll_events from the result r of the client's
\* poll_events (not looked at when there is no client) to the return.  w: the
\* bytes still in flight; c: the outcome of connect, should the call try to
\* connect.
Rocket_poll_events_Arms(r, w, c) ==
    LET live == client = "Some" /\ r.rr # "Err"
        fault == client = "Some" /\ r.rr = "Err"
        trs == IF client = "Some" THEN r.tracks ELSE tracks
        base == [connected |-> client = "Some", wrote |-> <<>>,
                 fault |-> fault, attempted |-> FALSE, row0 |-> tracker_row,
                 early |-> client = "None" /\ now - lastAttempt < COOLDOWN,
                 gap |-> NONE, same |-> FALSE]
        NotConnected == Ret("Rocket_poll_events", "NotConnected")
    IN  IF live
        THEN /\ state' = r.state /\ cmd' = r.cmd /\ tracks' = r.tracks
             /\ inbox' = r.inbox /\ wire' = w /\ io' = r.io
             /\ pc' = Rocket_poll_events_Some(r).pc
             /\ ret' = Rocket_poll_events_Some(r).ret
             /\ tracker_row' = Rocket_poll_events_Some(r).tracker_row
             /\ lastTime' = IF r.rr = "Some" THEN NONE ELSE lastTime
             /\ obs' = base
             /\ UNCHANGED << client, peer, outbox, sent,
                             connection_attempted, now, lastAttempt >>
        ELSE IF ~CooldownElapsed(now - connection_attempted)
        THEN /\ c = "Ok"
             /\ ClientDropped
             /\ tracks' = trs
             /\ io' = IF fault THEN r.io ELSE io
             /\ pc' = "idle" /\ ret' = NotConnected
             /\ lastTime' = NONE
             /\ obs' = base
             /\ UNCHANGED << tracker_row, connection_attempted, now,
                             lastAttempt >>
        ELSE /\ connection_attempted' = now
             /\ lastAttempt' = now
             /\ lastTime' = NONE
             /\ obs' = [base EXCEPT !.attempted = TRUE,
                                    !.gap = now - lastAttempt]
             /\ UNCHANGED now
             /\ CASE c = "Ok" ->
                       Rocket_poll_events_Connected(
                           RocketClient_poll_events(Self_new.state, Self_new.cmd,
                               trs, <<>>, <<>>, "open", MAX_COMMAND_LEN,
                               "none"))
                  [] c = "Err" ->
                       /\ ClientDropped
                       /\ tracks' = trs
                       /\ io' = IF fault THEN r.io ELSE io
                       /\ pc' = "idle" /\ ret' = NotConnected
                       /\ UNCHANGED tracker_row
                  [] c = "Wait" ->
                       /\ ClientDropped
                       /\ tracks' = trs
                       /\ io' = IF fault THEN r.io ELSE io
                       /\ pc' = "handshake"
                       /\ UNCHANGED << ret, tracker_row >>

\* The loop of Rocket::poll_events to its return.  k: how many of the bytes
\* in flight arrive in time for the call.
Rocket_poll_events_loop(k, c) ==
    Rocket_poll_events_Arms(
        RocketClient_poll_events(state, cmd, tracks, inbox \o Take(wire, k),
                                 Drop(wire, k), peer, MAX_COMMAND_LEN, "none"),
        Drop(wire, k), c)

\* Rocket::poll_events, the whole call.  part: the frame in flight arrives
\* in part.
Rocket_poll_events(part, c) ==
    /\ pc = "idle"
    /\ part => (state.tag = "New" /\ Len(wire) > 1)
    /\ Rocket_poll_events_loop(Arrivals(wire, part), c)
    /\ UNCHANGED << events, self_row >>

\* A poll_events call that spins on end of stream goes on when the
\* connection is reset under it: the next read of the client fails
Rocket_poll_events_reset(c) ==
    /\ pc = "hung" /\ peer = "reset"
    /\ Rocket_poll_events_loop(0, c)
    /\ UNCHANGED << events, self_row >>

\* A poll_events call that waits in connect goes on when the handshake ends:
\* the greeting has arrived (ok), or the read has failed or the greeting is
\* not the tracker's
Rocket_poll_events_greeted(ok) ==
    /\ pc = "handshake"
    /\ IF ok
       THEN Rocket_poll_events_Connected(
                RocketClient_poll_events(Self_new.state, Self_new.cmd,
                    tracks, <<>>, <<>>, "open", MAX_COMMAND_LEN, "none"))
       ELSE /\ pc' = "idle"
            /\ ret' = Ret("Rocket_poll_events", "NotConnected")
            /\ UNCHANGED << client, state, cmd, tracks, inbox, wire, peer,
                            outbox, sent, io, tracker_row >>
    /\ UNCHANGED << events, self_row, connection_attempted, now, lastAttempt,
                    lastTime, obs >>

NextRocket ==
    \/ \E f \in SessionFrames : TrackerSend(f)
    \/ ServerClose
    \/ ConnReset
    \/ Tick
    \/ \E name \in SessionNames, brk \in BOOLEAN : Rocket_get_value(name, brk)
    \/ \E t \in Times : Rocket_set_time(t)
    \/ \E part \in BOOLEAN, c \in ConnectOutcomes : Rocket_poll_events(part, c)
    \/ \E c \in ConnectOutcomes : Rocket_poll_events_reset(c)
    \/ \E ok \in BOOLEAN : Rocket_poll_events_greeted(ok)

SpecRocket == InitRocket /\ [][NextRocket]_vars

\* ------------------------------------------------------------------------
\* The session with a clock that runs on and a tracker that comes back:
\* SpecRocketLive
\* ------------------------------------------------------------------------
\* Time passes once the clock of the model stands at its bound: the stamps
\* move back by a second instead (what has elapsed since them grows as it
\* does with Tick, up to MaxNow)
TickLate ==
    /\ now = MaxNow
    /\ connection_attempted > 0 \/ lastAttempt > 0
    /\ connection_attempted' =
           IF connection_attempted > 0 THEN connection_attempted - 1 ELSE 0
    /\ lastAttempt' = IF lastAttempt > 0 THEN lastAttempt - 1 ELSE 0
    /\ UNCHANGED cvars
    /\ UNCHANGED << client, self_row, tracker_row, now, lastTime, obs >>

\* A connection attempt of poll_events that the tracker accepts and answers
\* with its greeting
ConnectSucceeds ==
    \/ /\ client = "None"
       /\ CooldownElapsed(now - connection_attempted)
       /\ Rocket_poll_events(FALSE, "Ok")
    \/ Rocket_poll_events_greeted(TRUE)

NextRocketLive ==
    \/ NextRocket
    \/ TickLate

\* Time advances; poll_events keeps being called and, whenever the session
\* is again and again in a position to connect, the tracker accepts the
\* connection and answers the handshake
SpecRocketLive ==
    /\ InitRocket /\ [][NextRocketLive]_vars
    /\ WF_vars(Tick) /\ WF_vars(TickLate)
    /\ SF_vars(ConnectSucceeds)

\* ------------------------------------------------------------------------
\* Reference run: the same bytes delivered in one contiguous chunk
\* ------------------------------------------------------------------------
\* The tracks of trs with their keys removed
Unkeyed(trs) == [i \in 1..Len(trs) |-> Track_new(trs[i].name)]

\* poll_events called again and again on a socket that holds all of `in`,
\* every read returning all it asked for, until a read would block
RECURSIVE Contiguous(_, _, _, _, _)
Contiguous(st, c, trs, in, evs) ==
    LET r == RocketClient_poll_events(st, c, trs, in, <<>>, "open",
                                      MAX_COMMAND_LEN, "none")
    IN  IF r.rr = "Some"
        THEN Contiguous(r.state, r.cmd, r.tracks, r.inbox, Append(evs, r.ev))
        ELSE IF r.rr = "None" /\ r.io # "wouldblock"
        THEN Contiguous(r.state, r.cmd, r.tracks, r.inbox, evs)
        ELSE [state |-> r.state, cmd |-> r.cmd, tracks |-> r.tracks,
              events |-> evs, rr |-> r.rr]

ContiguousRun(bytes) ==
    Contiguous(ClientState_New, <<>>, Unkeyed(tracks), bytes, <<>>)

\* The bytes the client has read so far, while the connection is open
Consumed ==
    LET all == Flatten(sent)
    IN  Take(all, Len(all) - Len(wire) - Len(inbox))

KnownOps == {SET_KEY, DELETE_KEY, SET_ROW, PAUSE, SAVE_TRACKS}
IsKnownFrame(f) == f[1] \in KnownOps

\* Everything the tracker sent has been read and decoded
Drained == pc = "idle" /\ peer = "open" /\ wire = <<>> /\ inbox = <<>>

\* ------------------------------------------------------------------------
\* C1..C5: the decoder on one connection
\* ------------------------------------------------------------------------

\* C1: poll_events returns Ok(None) only when a socket read reported
\* would-block (so that buffered frames are processed until an event is
\* returned or the buffer is empty).
C1_NoneOnlyOnWouldBlock ==
    (pc = "idle" /\ ret.op = "poll_events" /\ ret.kind = "None")
        => io = "wouldblock"

\* C2: chunking invariance.  However the bytes read so far were split over
\* reads and poll_events calls, the events returned, the tracks and the
\* decoder state are those of a run that got the same bytes in one chunk.
C2_ChunkingInvariance ==
    (pc = "idle" /\ peer = "open") =>
        LET ref == ContiguousRun(Consumed)
        IN  /\ ref.events = events
            /\ ref.tracks = tracks
            /\ ref.state = state
            /\ ref.cmd = cmd

\* C2 witness: a read boundary fell inside a frame body after a SET_KEY
\* frame was decoded
C2_Witness ==
    /\ pc = "idle" /\ peer = "open"
    /\ state.tag = "Incomplete" /\ Len(cmd) > 1
    /\ \E i \in 1..Len(tracks) : tracks[i].keys # <<>>

\* The track names the tracker has received in GET_TRACK requests, in the
\* order of arrival: its numbering of the tracks.  A request whose bytes are
\* not all there yet is not counted.
RECURSIVE TrackerNames(_)
TrackerNames(out) ==
    IF out = <<>> THEN <<>>
    ELSE IF out[1] = GET_TRACK
    THEN IF Len(out) < 1 + GET_TRACK_LEN THEN <<>>
         ELSE LET len == ReadU32(out, 1)
              IN  IF Len(out) < 1 + GET_TRACK_LEN + len THEN <<>>
                  ELSE << SubSeq(out, 2 + GET_TRACK_LEN, 1 + GET_TRACK_LEN + len) >>
                       \o TrackerNames(Drop(out, 1 + GET_TRACK_LEN + len))
    ELSE IF out[1] = SET_ROW /\ Len(out) >= 1 + SET_ROW_LEN
    THEN TrackerNames(Drop(out, 1 + SET_ROW_LEN))
    ELSE <<>>

\* The bytes the decoder has yet to process, the frame it is in first
Pending == cmd \o inbox \o wire

C3_Names ==
    TrackerNames(outbox) = [i \in 1..Len(tracks) |-> tracks[i].name]

C3_Step ==
    /\ Len(tracks') >= Len(tracks)
    /\ \A j \in 1..Len(tracks) :
         /\ tracks'[j].name = tracks[j].name
         /\ tracks'[j].keys # tracks[j].keys =>
              /\ Pending[1] \in {SET_KEY, DELETE_KEY}
              /\ ReadU32(Pending, 1) = j - 1
              /\ TrackerNames(outbox)[j] = tracks[j].name

\* C3: index identity.  The i-th name requested with GET_TRACK is the track
\* at local index i and stays there; a SET_KEY or DELETE_KEY frame for index
\* i changes the keys of that track and of no other.
C3_IndexIdentity == [](C3_Names) /\ [][C3_Step]_vars

\* C3 witness: "b" was requested first, then "a"; a SET_KEY frame for index 0
\* has put a key on "b" and none on "a"
C3_Witness ==
    /\ Len(tracks) = 2
    /\ tracks[1].name = <<98>> /\ tracks[1].keys # <<>>
    /\ tracks[2].name = <<97>> /\ tracks[2].keys = <<>>

\* C4: once a read has reported end of stream, poll_events has returned
\* Error::IOError; it never loops forever.
C4_EofReturnsIOError ==
    io = "eof" =>
        /\ pc # "hung"
        /\ (pc = "idle" /\ ret.op = "poll_events") => ret.kind = "Err"

C5_Drained ==
    Drained =>
        LET ref == ContiguousRun(Flatten(SelectSeq(sent, IsKnownFrame)))
        IN  /\ ref.events = events
            /\ ref.tracks = tracks
            /\ state = ClientState_New
            /\ cmd = <<>>

C5_Step ==
    ( /\ pc = "idle" /\ state.tag = "New"
      /\ inbox \o wire # <<>>
      /\ (inbox \o wire)[1] \notin KnownOps
      /\ peer' = peer /\ sent' = sent
      /\ Len(inbox') + Len(wire') < Len(inbox) + Len(wire) )
    => /\ Len(inbox') + Len(wire') = Len(inbox) + Len(wire) - 1
       /\ pc' = "idle"
       /\ state' = ClientState_New
       /\ cmd' = <<>>
       /\ tracks' = tracks
       /\ events' = events

\* C5: unknown-opcode resilience.  Decoding an unknown opcode byte consumes
\* that byte alone, returns no event, changes no track and leaves the decoder
\* awaiting an opcode with an empty buffer; the stream decodes as it does
\* with the unknown bytes taken out.
C5_UnknownOpcode == [](C5_Drained) /\ [][C5_Step]_vars

\* C5 witness: an unknown opcode byte was sent first, and the SET_ROW frame
\* after it was decoded
C5_Witness ==
    /\ Drained
    /\ Len(sent) = 2
    /\ ~IsKnownFrame(sent[1])
    /\ events = << Event_SetRow(2) >>

\* ------------------------------------------------------------------------
\* The session: C6 to C10, under SpecRocket
\* ------------------------------------------------------------------------
\* The latest call of the session has returned and was op
Returned(op) == pc = "idle" /\ ret.op = op

\* The rows of the SET_ROW messages among the written bytes out, oldest first
RECURSIVE RowsSent(_)
RowsSent(out) ==
    IF out = <<>> THEN <<>>
    ELSE IF out[1] = SET_ROW /\ Len(out) >= 1 + SET_ROW_LEN
    THEN <<ReadU32(out, 1)>> \o RowsSent(Drop(out, 1 + SET_ROW_LEN))
    ELSE IF out[1] = GET_TRACK /\ Len(out) >= 1 + GET_TRACK_LEN
            /\ Len(out) >= 1 + GET_TRACK_LEN + ReadU32(out, 1)
    THEN RowsSent(Drop(out, 1 + GET_TRACK_LEN + ReadU32(out, 1)))
    ELSE <<>>

\* The last row sent on the current connection, NONE if none was sent on it
LastRowSent ==
    IF RowsSent(outbox) = <<>> THEN NONE
    ELSE RowsSent(outbox)[Len(RowsSent(outbox))]

\* C6: redundant SET_ROW suppression.  A set_time made with a client for the
\* integer row of the set_time before it, with no tracker event returned, no
\* failed send and no disconnection in between, writes nothing to the socket.
C6_RedundantSetRowSuppressed ==
    (Returned("Rocket_set_time") /\ obs.connected /\ obs.same) =>
        (obs.wrote = <<>> /\ ~obs.fault /\ client = "Some")

\* C6 witness: set_time(4/32 s) sent row 2, then set_time(5/32 s), row 5/2,
\* sent nothing
C6_Witness ==
    /\ Returned("Rocket_set_time") /\ obs.connected /\ obs.same
    /\ self_row = <<5, 2>>
    /\ outbox = SetRowBytes(2)

\* C7 as stated: after a set_time made with a client that did not fail, the
\* last row sent on the connection is the computed row (it was sent now, or
\* it was the last one sent already).
C7_SendsWheneverDiffersFromLastSent ==
    (Returned("Rocket_set_time") /\ obs.connected /\ ~obs.fault) =>
        LastRowSent = AsU32(self_row)

C7_Inv ==
    /\ Returned("Rocket_new") => tracker_row = 0
    /\ (Returned("Rocket_set_time") /\ obs.connected /\ ~obs.fault) =>
          /\ tracker_row = AsU32(self_row)
          /\ obs.wrote = IF obs.row0 # AsU32(self_row)
                         THEN SetRowBytes(AsU32(self_row)) ELSE <<>>
    /\ (Returned("Rocket_poll_events") /\ ret.kind = "Seek") =>
          tracker_row = ret.row

C7_Step ==
    tracker_row' # tracker_row =>
        /\ pc' = "idle"
        /\ \/ /\ ret'.op = "Rocket_set_time"
              /\ obs'.wrote = SetRowBytes(tracker_row')
           \/ /\ ret'.op = "Rocket_poll_events" /\ ret'.kind = "Seek"
              /\ ret'.row = tracker_row'

\* C7 (amended): set_time made with a client sends SET_ROW carrying the
\* computed row exactly when that row differs from the remembered tracker
\* row.  The tracker row is 0 after Rocket::new, becomes the row of every
\* SET_ROW sent successfully and of every SetRow event received, and changes
\* in no other way: a reconnection keeps it.
C7_SendsWhenDiffersFromTrackerRow == [](C7_Inv) /\ [][C7_Step]_vars

\* C7 witness: the tracker has moved the session to row 2 with SET_ROW, then
\* set_time(0) sent row 0, the first row sent on the connection
C7_Witness ==
    /\ Returned("Rocket_set_time") /\ obs.connected
    /\ obs.row0 = 2
    /\ obs.wrote = SetRowBytes(0)
    /\ outbox = SetRowBytes(0)

\* C8: a call of the session in which a read or a write failed has returned
\* no error and has dropped the client: the session is disconnected, or it
\* is poll_events and has connected anew in the same call; a failed
\* set_time leaves the tracker row as it was, a failed get_value gives 0.
C8_IoErrorDropsClient ==
    (obs.fault /\ pc # "handshake") =>
        /\ pc = "idle"
        /\ ret.kind \in {"Ok", "Value", "None", "NotConnected"}
        /\ \/ client = "None" /\ peer = "none"
           \/ ret.op = "Rocket_poll_events" /\ obs.attempted
        /\ ret.op = "Rocket_set_time" => tracker_row = obs.row0
        /\ ret.op = "Rocket_get_value" => ret.value = RInt(0)

\* C8 witness: set_time for row 2 failed on a reset connection; the client
\* is gone and the tracker row is still 0
C8_Witness ==
    /\ obs.fault /\ Returned("Rocket_set_time")
    /\ client = "None"
    /\ AsU32(self_row) = 2 /\ tracker_row = 0

C10_ReconnectCooldown ==
    /\ (obs.attempted /\ obs.gap # NONE) => obs.gap >= COOLDOWN
    /\ (Returned("Rocket_poll_events") /\ obs.early) =>
          (ret.kind = "NotConnected" /\ ~obs.attempted /\ client = "None")

\* C10 witness: poll_events has connected again one second after the attempt
\* before it, which poll_events had made too
C10_Witness ==
    /\ Returned("Rocket_poll_events") /\ obs.attempted
    /\ obs.gap = COOLDOWN
    /\ lastAttempt = 2
    /\ client = "Some"

\* ------------------------------------------------------------------------
\* RocketClient::connect and its handshake (src/src/client.rs): SpecConnect.
\* The call is followed through its blocking read: pc = "handshake" while
\* read_exact waits for the greeting.
\* ------------------------------------------------------------------------
\* What TcpStream::connect and the write of the greeting come to: the
\* connection is refused; it is accepted; it is accepted and breaks before
\* the greeting is written
Accepts == {"refused", "accepted", "broken"}

\* What the peer sends on a new connection: the greeting; the greeting with
\* a SET_ROW frame behind it; another 12 bytes ("hello, demo?") with the
\* frame behind them; the first 5 bytes of the greeting
Replies ==
    { SERVER_GREETING,
      SERVER_GREETING \o FrameSetRow(2),
      Take(SERVER_GREETING, 11) \o <<63>> \o FrameSetRow(2),
      Take(SERVER_GREETING, 5) }

\* Mutant: the socket is made non-blocking before the handshake
ReadExact_NonBlocking(in, p, n) ==
    IF Len(in) >= n THEN "data"
    ELSE IF p = "reset" THEN "error"
    ELSE IF p = "closed" THEN "eof"
    ELSE "wouldblock"

\* read_exact of n bytes on the blocking socket of the handshake, the socket
\* holding in and the peer having status p (a closed peer has nothing in
\* flight): "data"; "error" on a broken connection; "eof" when the stream
\* ends before n bytes; "wait" while the bytes may still come
ReadExact(in, p, n) ==
    IF Len(in) >= n THEN "data"
    ELSE IF p = "reset" THEN "error"
    ELSE IF p = "closed" THEN "eof"
    ELSE "wait"

\* The client and its socket are dropped
NoClient ==
    /\ client' = "None"
    /\ state' = ClientState_New
    /\ cmd' = <<>>
    /\ tracks' = <<>>
    /\ inbox' = <<>>
    /\ wire' = <<>>
    /\ peer' = "none"

InitConnect ==
    /\ client = "None"
    /\ peer = "none"
    /\ state = ClientState_New
    /\ cmd = <<>>
    /\ tracks = <<>>
    /\ inbox = <<>>
    /\ wire = <<>>
    /\ outbox = <<>>
    /\ sent = <<>>
    /\ pc = "idle"
    /\ io = "none"
    /\ ret = Ret("none", "None")
    /\ events = <<>>
    /\ self_row = RInt(0)
    /\ tracker_row = 0
    /\ connection_attempted = 0
    /\ now = 0
    /\ lastAttempt = 0
    /\ lastTime = NONE
    /\ obs = Obs_Init

\* RocketClient::connect up to the read of the handshake: TcpStream::connect,
\* the new client, write_all of the client greeting
connect(acc) ==
    /\ pc = "idle" /\ client = "None"
    /\ sent' = <<>> /\ events' = <<>> /\ io' = "none"
    /\ CASE acc = "refused" ->
              /\ NoClient
              /\ outbox' = <<>>
              /\ ret' = Ret("connect", "Connect")
              /\ UNCHANGED pc
         [] acc = "broken" ->
              /\ NoClient
              /\ outbox' = <<>>
              /\ ret' = Ret("connect", "Handshake")
              /\ UNCHANGED pc
         [] acc = "accepted" ->
              /\ peer' = "open"
              /\ outbox' = CLIENT_GREETING
              /\ state' = ClientState_New /\ cmd' = <<>> /\ tracks' = <<>>
              /\ inbox' = <<>> /\ wire' = <<>>
              /\ pc' = "handshake"
              /\ UNCHANGED << client, ret >>
    /\ UNCHANGED svars

\* The peer answers a new connection
TrackerReplies(g) ==
    /\ peer = "open" /\ sent = <<>>
    /\ wire' = g
    /\ sent' = <<g>>
    /\ UNCHANGED << state, cmd, tracks, inbox, peer, outbox, pc, io, ret,
                    events >>
    /\ UNCHANGED svars

\* k of the bytes in flight reach the socket
Arrive(k) ==
    /\ peer = "open" /\ k \in 1..Len(wire)
    /\ inbox' = inbox \o Take(wire, k)
    /\ wire' = Drop(wire, k)
    /\ UNCHANGED << state, cmd, tracks, peer, outbox, sent, pc, io, ret,
                    events >>
    /\ UNCHANGED svars

\* The peer closes the connection; all it has sent has arrived
TrackerCloses ==
    /\ peer = "open" /\ wire = <<>>
    /\ peer' = "closed"
    /\ UNCHANGED << state, cmd, tracks, inbox, wire, outbox, sent, pc, io,
                    ret, events >>
    /\ UNCHANGED svars

\* The rest of RocketClient::connect, from the moment read_exact returns:
\* the comparison of the greeting, set_nonblocking, the result
handshake ==
    /\ pc = "handshake"
    /\ LET rd == ReadExact(inbox, peer, Len(SERVER_GREETING))
           buf == Take(inbox, Len(SERVER_GREETING))
       IN  /\ rd # "wait"
           /\ io' = rd
           /\ pc' = "idle"
           /\ IF rd = "data" /\ buf = SERVER_GREETING
              THEN /\ client' = "Some"
                   /\ inbox' = Drop(inbox, Len(SERVER_GREETING))
                   /\ ret' = Ret("connect", "Ok")
                   /\ UNCHANGED << state, cmd, tracks, wire, peer >>
              ELSE /\ NoClient
                   /\ ret' = Ret("connect",
                                 IF rd = "data"
                                 THEN "HandshakeGreetingMismatch"
                                 ELSE "Handshake")
    /\ UNCHANGED << outbox, sent, events >>
    /\ UNCHANGED << self_row, tracker_row, connection_attempted, now,
                    lastAttempt, lastTime, obs >>

\* poll_events on the client that connect has returned
connected_poll_events(k, m) ==
    /\ client = "Some"
    /\ poll_events(k, m)

NextConnect ==
    \/ \E acc \in Accepts : connect(acc)
    \/ \E g \in Replies : TrackerReplies(g)
    \/ \E k \in 1..(Len(SERVER_GREETING) + 1 + SET_ROW_LEN) : Arrive(k)
    \/ TrackerCloses
    \/ ConnReset
    \/ handshake
    \/ \E k \in 0..(1 + SET_ROW_LEN), m \in ReadSizes :
          connected_poll_events(k, m)

SpecConnect == InitConnect /\ [][NextConnect]_vars

\* ------------------------------------------------------------------------
\* The session: C11 to C15
\* ------------------------------------------------------------------------

\* C11: automatic reconnection.  Under SpecRocketLive (time advances,
\* poll_events keeps being called, the tracker accepts and greets), a session
\* without a client comes to have one again, poll_events having returned
\* something other than NotConnected.
C11_EventuallyReconnects ==
    (client = "None") ~>
        (client = "Some" /\ Returned("Rocket_poll_events")
                         /\ ret.kind # "NotConnected")

\* C11 witness: a poll_events call that began without a client has connected
\* and returned None
C11_Witness ==
    /\ Returned("Rocket_poll_events") /\ ret.kind = "None"
    /\ ~obs.connected /\ obs.attempted
    /\ client = "Some" /\ peer = "open"

\* C12: poll_events never waits on the network: no call of it sits in the
\* handshake of connect waiting for the tracker's greeting.
C12_PollEventsNeverWaits == pc # "handshake"

\* C13: poll_events has returned NotConnected exactly when the session has no
\* client as the call returns.
C13_NotConnectedIffNoClient ==
    Returned("Rocket_poll_events") =>
        (ret.kind = "NotConnected" <=> client = "None")

\* C13 witness: a call that began with a client, whose read failed less than
\* a second after the latest connection attempt, returned NotConnected
C13_Witness ==
    /\ Returned("Rocket_poll_events") /\ ret.kind = "NotConnected"
    /\ obs.connected /\ obs.fault /\ ~obs.attempted
    /\ client = "None"

\* The names of tracks
TrackNames(trs) == { trs[i].name : i \in 1..Len(trs) }

\* C14: reconnection wipes track state.  A poll_events call that has
\* connected leaves the session with no tracks; a get_value served by the
\* client is for a name requested with GET_TRACK on the current connection.
C14_ReconnectWipesTracks ==
    /\ (Returned("Rocket_poll_events") /\ obs.attempted /\ client = "Some")
          => tracks = <<>>
    /\ (Returned("Rocket_get_value") /\ obs.connected /\ ~obs.fault)
          => ret.name \in { TrackerNames(outbox)[i] :
                               i \in 1..Len(TrackerNames(outbox)) }

\* The length of the frame that begins with opcode op
FrameLen(op) ==
    CASE op = SET_KEY     -> 1 + SET_KEY_LEN
      [] op = DELETE_KEY  -> 1 + DELETE_KEY_LEN
      [] op = SET_ROW     -> 1 + SET_ROW_LEN
      [] op = PAUSE       -> 1 + PAUSE_LEN
      [] OTHER            -> 1

\* The step is a poll_events call on a standing connection that has read the
\* frame at the head of the stream to its end
FrameCompleted ==
    /\ pc = "idle" /\ client = "Some" /\ client' = "Some" /\ peer' = peer
    /\ Pending # <<>>
    /\ Len(Pending) >= FrameLen(Pending[1])
    /\ cmd' \o inbox' \o wire' = Drop(Pending, FrameLen(Pending[1]))

C15_Step ==
    /\ FrameCompleted =>
          /\ pc' = "idle" /\ ret'.op = "Rocket_poll_events"
          /\ Pending[1] = SET_ROW =>
                /\ ret'.kind = "Seek"
                /\ RMul(RMul(ret'.to, bps), RInt(ROWS_PER_BEAT))
                      = RInt(ReadU32(Pending, 1))
                /\ tracker_row' = ReadU32(Pending, 1)
          /\ Pending[1] = PAUSE =>
                /\ ret'.kind = "Pause"
                /\ ret'.flag = (Pending[2] = 1)
          /\ Pending[1] = SAVE_TRACKS => ret'.kind = "SaveTracks"
          /\ Pending[1] \in {SET_KEY, DELETE_KEY} => ret'.kind = "None"
    /\ (pc' = "idle" /\ ret'.op = "Rocket_poll_events" /\ ret' # ret
          /\ ret'.kind \in {"Seek", "Pause", "SaveTracks"})
          => FrameCompleted
                /\ Pending[1] = (CASE ret'.kind = "Seek" -> SET_ROW
                                   [] ret'.kind = "Pause" -> PAUSE
                                   [] ret'.kind = "SaveTracks" -> SAVE_TRACKS)

\* C15: event translation.  A poll_events call that reads a SET_ROW, PAUSE
\* or SAVE_TRACKS frame to its end returns Seek (of the time of that row),
\* Pause (of that flag) or SaveTracks, one call for one frame in the order
\* of the stream, and a SET_ROW frame makes its row the tracker row; a call
\* returns such an event only for a frame it has read.
C15_EventTranslation == [][C15_Step]_vars

\* C15 witness: with the tracker row at 0, poll_events has returned
\* Seek(1/8 s) for the SET_ROW frame of row 2; the tracker row is 2
C15_Witness ==
    /\ Returned("Rocket_poll_events") /\ ret.kind = "Seek"
    /\ ret.to = <<1, 8>>
    /\ obs.row0 = 0 /\ tracker_row = 2
    /\ Pending = <<>> /\ client = "Some"

\* ------------------------------------------------------------------------
\* C16: the handshake, under SpecConnect
\* ------------------------------------------------------------------------
\* The first bytes the peer has sent on the connection are the greeting
Greeted ==
    /\ sent # <<>>
    /\ Len(sent[1]) >= Len(SERVER_GREETING)
    /\ Take(sent[1], Len(SERVER_GREETING)) = SERVER_GREETING

\* C16: connect writes the client greeting before it reads; it reads
\* exactly the 12 bytes of the greeting, waiting for them on the blocking
\* socket; there is a client only if those bytes are the server greeting; 12
\* other bytes give HandshakeGreetingMismatch, a stream that ends or breaks
\* before 12 bytes gives Handshake, and in both cases there is no client and
\* nothing is decoded.
C16_Handshake ==
    /\ pc = "handshake" => (client = "None" /\ outbox = CLIENT_GREETING)
    /\ client = "Some" =>
          (Greeted /\ Take(outbox, Len(CLIENT_GREETING)) = CLIENT_GREETING)
    /\ Returned("connect") =>
          /\ ret.kind = "Ok" <=> client = "Some"
          /\ (ret.kind = "Ok" /\ peer \in {"open", "closed"}) =>
                Pending = Drop(sent[1], Len(SERVER_GREETING))
          /\ ret.kind = "HandshakeGreetingMismatch" =>
                /\ sent # <<>> /\ Len(sent[1]) >= Len(SERVER_GREETING)
                /\ ~Greeted
          /\ ret.kind = "Handshake" =>
                (outbox = <<>> \/ io \in {"eof", "error"})
          /\ ret.kind = "Connect" => outbox = <<>>
    /\ client = "None" =>
          (state = ClientState_New /\ cmd = <<>> /\ tracks = <<>>
              /\ events = <<>>)

\* C16 witness: the peer sent "hello, demo?" and a SET_ROW frame; connect
\* returned HandshakeGreetingMismatch and there is no client
C16_Witness ==
    /\ Returned("connect") /\ ret.kind = "HandshakeGreetingMismatch"
    /\ sent = << Take(SERVER_GREETING, 11) \o <<63>> \o FrameSetRow(2) >>
    /\ client = "None" /\ events = <<>>

\* ------------------------------------------------------------------------
\* One track under set_key, delete_key and get_value (src/src/track.rs):
\* SpecTrack.  The track is tracks[1]; ret tells the latest call.
\* ------------------------------------------------------------------------
TrackRows == {1, 2, 3}                      \* rows of the keys
TrackValues == { RInt(1), RInt(2) }         \* values of the keys
Interpolations == {"Step", "Linear", "Smooth", "Ramp"}
\* The rows asked for: -1, 1, 3/2, 2, 5/2, 3, 4
QueryRows ==
    { RInt(-1), RInt(1), <<3, 2>>, RInt(2), <<5, 2>>, RInt(3), RInt(4) }

\* a <= b and a < b on rationals
RLe(a, b) == a[1] * b[2] <= b[1] * a[2]
RLt(a, b) == a[1] * b[2] < b[1] * a[2]

\* Where set_key puts a key of this row
HowSet(keys, row) ==
    IF get_exact_position(keys, row) # NONE THEN "replaced"
    ELSE IF get_insert_position(keys, row) = NONE THEN "appended"
    ELSE IF get_insert_position(keys, row) = 0 THEN "front"
    ELSE "middle"

InitTrack ==
    /\ tracks = << Track_new(<<97>>) >>
    /\ ret = [op |-> "Track_new", kind |-> "Ok"]
    /\ client = "None"
    /\ peer = "none"
    /\ state = ClientState_New
    /\ cmd = <<>>
    /\ inbox = <<>>
    /\ wire = <<>>
    /\ outbox = <<>>
    /\ sent = <<>>
    /\ pc = "idle"
    /\ io = "none"
    /\ events = <<>>
    /\ self_row = RInt(0)
    /\ tracker_row = 0
    /\ connection_attempted = 0
    /\ now = 0
    /\ lastAttempt = 0
    /\ lastTime = NONE
    /\ obs = Obs_Init

\* Track::set_key(Key::new(row, value, interp))
Track_set_key(row, value, interp) ==
    /\ tracks' = [tracks EXCEPT
                     ![1].keys = set_key(@, Key_new(row, value, interp))]
    /\ ret' = [op |-> "Track_set_key", kind |-> "Ok",
               key |-> Key_new(row, value, interp),
               how |-> HowSet(tracks[1].keys, row)]
    /\ UNCHANGED << state, cmd, inbox, wire, peer, outbox, sent, pc, io,
                    events >>
    /\ UNCHANGED svars

\* Track::delete_key(row)
Track_delete_key(row) ==
    /\ tracks' = [tracks EXCEPT ![1].keys = delete_key(@, row)]
    /\ ret' = [op |-> "Track_delete_key", kind |-> "Ok", row |-> row,
               how |-> IF get_exact_position(tracks[1].keys, row) # NONE
                       THEN "removed" ELSE "absent"]
    /\ UNCHANGED << state, cmd, inbox, wire, peer, outbox, sent, pc, io,
                    events >>
    /\ UNCHANGED svars

\* Track::get_value(row).  after tells the set_key the call comes right
\* after, if it does.
Track_query(row) ==
    /\ ret' = [op |-> "Track_get_value", kind |-> "Value", row |-> row,
               value |-> Track_get_value(tracks[1].keys, row),
               after |-> IF ret.op = "Track_set_key"
                         THEN [how |-> ret.how, key |-> ret.key]
                         ELSE [how |-> "none"]]
    /\ UNCHANGED << state, cmd, tracks, inbox, wire, peer, outbox, sent, pc,
                    io, events >>
    /\ UNCHANGED svars

NextTrack ==
    \/ \E row \in TrackRows, value \in TrackValues, interp \in Interpolations :
          Track_set_key(row, value, interp)
    \/ \E row \in TrackRows : Track_delete_key(row)
    \/ \E row \in QueryRows : Track_query(row)

SpecTrack == InitTrack /\ [][NextTrack]_vars

\* ------------------------------------------------------------------------
\* C17 to C20: Track::get_value, under SpecTrack
\* ------------------------------------------------------------------------
\* The keys of the track
Keys == tracks[1].keys

\* C17: clamp invariant.  On a track with keys, get_value of a row at or
\* below the row of the first key (negative rows too) is the value of the
\* first key, and get_value of a row at or above the row of the last key is
\* the value of the last key.
C17_Clamp ==
    (Returned("Track_get_value") /\ Keys # <<>>) =>
        /\ RLe(ret.row, RInt(Keys[1].row)) => ret.value = Keys[1].value
        /\ RLe(RInt(Keys[Len(Keys)].row), ret.row) =>
              ret.value = Keys[Len(Keys)].value

\* C17 witness: three keys, the first of value 2 and the last of value 1;
\* get_value(-1) is 2
C17_Witness ==
    /\ Returned("Track_get_value")
    /\ Len(Keys) = 3 /\ Keys[1].value = RInt(2) /\ Keys[3].value = RInt(1)
    /\ ret.row = RInt(-1) /\ ret.value = RInt(2)

\* C18: step hold.  Between a key with Step interpolation and the key after
\* it, get_value is the value of the lower key from its row up to, but not
\* at, the row of the higher key, where it is the value of the higher key.
C18_StepHold ==
    Returned("Track_get_value") =>
        \A i \in 1..(Len(Keys) - 1) :
            Keys[i].interpolation = "Step" =>
                /\ (RLe(RInt(Keys[i].row), ret.row)
                      /\ RLt(ret.row, RInt(Keys[i + 1].row)))
                      => ret.value = Keys[i].value
                /\ ret.row = RInt(Keys[i + 1].row)
                      => ret.value = Keys[i + 1].value

\* C18 witness: keys at rows 1 (Step, value 1) and 3 (value 2); get_value(5/2)
\* is 1
C18_Witness ==
    /\ Returned("Track_get_value")
    /\ Len(Keys) = 2
    /\ Keys[1] = Key_new(1, RInt(1), "Step")
    /\ Keys[2].row = 3 /\ Keys[2].value = RInt(2)
    /\ ret.row = <<5, 2>> /\ ret.value = RInt(1)

\* C19: linear midpoint.  Between a key with Linear interpolation and the
\* key after it, wherever they are in the track, get_value of the row half
\* way between their rows is half way between their values.
C19_LinearMidpoint ==
    Returned("Track_get_value") =>
        \A i \in 1..(Len(Keys) - 1) :
            ( /\ Keys[i].interpolation = "Linear"
              /\ ret.row = RDiv(RInt(Keys[i].row + Keys[i + 1].row), RInt(2)) )
            => ret.value = RDiv(RAdd(Keys[i].value, Keys[i + 1].value), RInt(2))

\* C20: get_value of the row of a key, right after set_key of that key, is
\* the value of the key, wherever set_key has put it.
C20_SetThenGet ==
    ( /\ Returned("Track_get_value")
      /\ ret.after.how # "none"
      /\ ret.row = RInt(ret.after.key.row) )
    => ret.value = ret.after.key.value

\* C20 witness: a key of value 2 was put between two keys of value 1;
\* get_value of its row is 2
C20_Witness ==
    /\ Returned("Track_get_value")
    /\ ret.after.how = "middle"
    /\ ret.row = RInt(ret.after.key.row)
    /\ Len(Keys) = 3 /\ Keys[1].value = RInt(1) /\ Keys[3].value = RInt(1)
    /\ ret.value = RInt(2)

\* ------------------------------------------------------------------------
\* C21 and C22: Track::set_key and Track::delete_key, under SpecTrack
\* ------------------------------------------------------------------------
\* The rows of a key sequence, in order
RowsOf(keys) == [i \in 1..Len(keys) |-> keys[i].row]

\* A step of delete_key(r): with no key at row r the keys stay as they are;
\* with a key at row r that key goes and the others stay in order; a second
\* delete_key(r) changes nothing more
C21_Step ==
    ret'.op = "Track_delete_key" =>
        LET r == ret'.row
        IN  /\ (\A i \in 1..Len(Keys) : Keys[i].row # r) => Keys' = Keys
            /\ \A i \in 1..Len(Keys) :
                  Keys[i].row = r =>
                      Keys' = SubSeq(Keys, 1, i - 1)
                              \o SubSeq(Keys, i + 1, Len(Keys))
            /\ delete_key(Keys', r) = Keys'

\* C21: delete_key of a row without a key leaves the keys unchanged;
\* delete_key of a row with a key removes that key only and keeps the others
\* in order; delete_key twice gives what delete_key once gives.
C21_DeleteKey == [][C21_Step]_vars

\* C21 witness: delete_key(2) has removed the middle one of three keys
C21_Witness ==
    /\ Returned("Track_delete_key")
    /\ ret.how = "removed" /\ ret.row = 2
    /\ RowsOf(Keys) = <<1, 3>>

\* The rows of keys go strictly up: no two keys share a row
StrictlyIncreasing(keys) ==
    \A i \in 1..(Len(keys) - 1) : keys[i].row < keys[i + 1].row

\* A step of set_key(key): at a row that has a key, that key is replaced and
\* the number of keys stays; at a new row there is one key more, the new one,
\* and the old ones keep their order
C22_Step ==
    ret'.op = "Track_set_key" =>
        LET key == ret'.key
        IN  IF \E i \in 1..Len(Keys) : Keys[i].row = key.row
            THEN /\ Len(Keys') = Len(Keys)
                 /\ \A i \in 1..Len(Keys) :
                       Keys'[i] = IF Keys[i].row = key.row THEN key
                                  ELSE Keys[i]
            ELSE /\ Len(Keys') = Len(Keys) + 1
                 /\ \E i \in 1..Len(Keys') :
                       /\ Keys'[i] = key
                       /\ Keys = SubSeq(Keys', 1, i - 1)
                                 \o SubSeq(Keys', i + 1, Len(Keys'))

\* C22: track ordering invariant.  After any sequence of set_key and
\* delete_key calls the keys of every track are strictly increasing by row,
\* so no two keys share a row; set_key at a row that has a key replaces the
\* key and keeps the number of keys, set_key at a new row adds exactly one.
C22_TrackOrdering ==
    /\ [](\A t \in 1..Len(tracks) : StrictlyIncreasing(tracks[t].keys))
    /\ [][C22_Step]_vars

\* C22 witness: three keys at rows 1, 2, 3, the one at row 2 put in last,
\* between the other two
C22_Witness ==
    /\ Returned("Track_set_key")
    /\ ret.how = "middle" /\ ret.key.row = 2
    /\ RowsOf(Keys) = <<1, 2, 3>>

\* ------------------------------------------------------------------------
\* The snapshot and the player (src/src/player.rs, the bincode derives of
\* src/src/track.rs and src/src/lowlevel/interpolation.rs).  The snapshot is
\* encoded as bincode::config::standard() does: fields in the order of the
\* declaration, a sequence as its length and its elements, an integer as a
\* varint (one byte below 251; the model stays below), an f32 as its four
\* bytes, lowest first, an enum as the index of its variant.
\* ------------------------------------------------------------------------
\* The f32 bit patterns of the values the model has, big-endian
F32Patterns == { F32_ONE, F32_TWO, <<0, 0, 0, 0>> }

Reverse(s) == [i \in 1..Len(s) |-> s[Len(s) + 1 - i]]

\* f32::to_bits, big-endian, on the values of F32Patterns
F32ToBits(v) == CHOOSE b \in F32Patterns : F32FromBits(b) = v

EncodeVarint(n) == <<n>>
DecodeVarint(b, off) == b[off + 1]

EncodeF32(v) == Reverse(F32ToBits(v))
DecodeF32(b, off) == F32FromBits(Reverse(SubSeq(b, off + 1, off + 4)))

\* The variant index of derive(Encode) on enum Interpolation
EncodeInterpolation(kind) ==
    CASE kind = "Step"   -> <<0>>
      [] kind = "Linear" -> <<1>>
      [] kind = "Smooth" -> <<2>>
      [] kind = "Ramp"   -> <<3>>

\* derive(Decode) on enum Interpolation; "Err" for an index with no variant
DecodeInterpolation(b, off) ==
    CASE b[off + 1] = 0 -> "Step"
      [] b[off + 1] = 1 -> "Linear"
      [] b[off + 1] = 2 -> "Smooth"
      [] b[off + 1] = 3 -> "Ramp"
      [] OTHER          -> "Err"

\* derive(Encode) on struct Key: row, value, interpolation
EncodeKey(key) ==
    EncodeVarint(key.row) \o EncodeF32(key.value)
        \o EncodeInterpolation(key.interpolation)

EncodedKeyLen == 6

\* Mutant: the value is read where the row is
DecodeKey_Shifted(b, off) ==
    [row |-> DecodeVarint(b, off + 1), value |-> DecodeF32(b, off + 1),
     interpolation |-> DecodeInterpolation(b, off + 5)]

\* derive(Decode) on struct Key, from offset off
DecodeKey(b, off) ==
    [row |-> DecodeVarint(b, off), value |-> DecodeF32(b, off + 1),
     interpolation |-> DecodeInterpolation(b, off + 5)]

\* derive(Encode) on struct Track: name (a String), keys (a Vec<Key>)
EncodeTrack(t) ==
    EncodeVarint(Len(t.name)) \o t.name \o EncodeVarint(Len(t.keys))
        \o Flatten([i \in 1..Len(t.keys) |-> EncodeKey(t.keys[i])])

\* derive(Decode) on struct Track, from offset off; len is how many bytes
\* the track takes
DecodeTrack(b, off) ==
    LET nameLen == DecodeVarint(b, off)
        nKeys   == DecodeVarint(b, off + 1 + nameLen)
        first   == off + 2 + nameLen
    IN  [name |-> SubSeq(b, off + 2, off + 1 + nameLen),
         keys |-> [i \in 1..nKeys |->
                      DecodeKey(b, first + (i - 1) * EncodedKeyLen)],
         len  |-> 2 + nameLen + nKeys * EncodedKeyLen]

\* bincode::encode_to_vec of a Vec<Track>
EncodeTracks(trs) ==
    EncodeVarint(Len(trs))
        \o Flatten([i \in 1..Len(trs) |-> EncodeTrack(trs[i])])

\* The n tracks decoded from offset off on
RECURSIVE DecodeTrackSeq(_, _, _)
DecodeTrackSeq(b, off, n) ==
    IF n = 0 THEN <<>>
    ELSE LET t == DecodeTrack(b, off)
         IN  << [name |-> t.name, keys |-> t.keys] >>
                 \o DecodeTrackSeq(b, off + t.len, n - 1)

\* bincode::decode_from_slice to a Vec<Track>
DecodeTracks(b) == DecodeTrackSeq(b, 1, DecodeVarint(b, 0))

\* RocketClient::save_tracks: the track list of the client
save_tracks(trs) == trs

\* RocketPlayer::new: the tracks collected into a HashMap by name; of two
\* tracks of one name the later one stays
RocketPlayer_new(trs) ==
    [name \in {trs[i].name : i \in 1..Len(trs)} |->
        LET last == CHOOSE i \in 1..Len(trs) :
                        /\ trs[i].name = name
                        /\ \A j \in (i + 1)..Len(trs) : trs[j].name # name
        IN  trs[last]]

\* Mutant: a name the player does not have gives some track of the player
RocketPlayer_get_track_Any(player, name) ==
    IF name \in DOMAIN player
    THEN [kind |-> "Some", track |-> player[name]]
    ELSE IF DOMAIN player = {}
    THEN [kind |-> "None", track |-> Track_new(<<>>)]
    ELSE [kind |-> "Some",
          track |-> player[CHOOSE n \in DOMAIN player : TRUE]]

\* RocketPlayer::get_track: Option<&Track> as [kind, track]
RocketPlayer_get_track(player, name) ==
    IF name \in DOMAIN player
    THEN [kind |-> "Some", track |-> player[name]]
    ELSE [kind |-> "None", track |-> Track_new(<<>>)]

\* ------------------------------------------------------------------------
\* A live client whose tracks are saved and loaded into a player:
\* SpecSnapshot.  The tracker edits two tracks; ret carries the player that
\* RocketPlayer::new returns.
\* ------------------------------------------------------------------------
SnapshotFrames ==
    { FrameSetKey(0, 1, F32_ONE, 1), FrameSetKey(0, 3, F32_TWO, 2),
      FrameSetKey(1, 2, F32_TWO, 0), FrameDeleteKey(0, 1) }

\* save_tracks, bincode::encode_to_vec, bincode::decode_from_slice and
\* RocketPlayer::new, one after the other
Snapshot_load ==
    /\ pc = "idle"
    /\ LET bytes == EncodeTracks(save_tracks(tracks))
       IN  ret' = [op |-> "RocketPlayer_new", kind |-> "Ok",
                   from |-> "snapshot", bytes |-> bytes,
                   player |-> RocketPlayer_new(DecodeTracks(bytes))]
    /\ UNCHANGED << state, cmd, tracks, inbox, wire, peer, outbox, sent, pc,
                    io, events >>
    /\ UNCHANGED svars

NextSnapshot ==
    \/ \E name \in Names : get_track_mut(name, FALSE)
    \/ \E f \in SnapshotFrames : ServerSend(f)
    \/ poll_events(Len(wire), MAX_COMMAND_LEN)
    \/ Snapshot_load

SpecSnapshot == Init /\ [][NextSnapshot]_vars

MaxTracks == 3
LookupNames == Names \cup { <<99>> }    \* "a", "b", "c"
ListValues == { RInt(1), RInt(2) }

HasPlayer == ret.op \in {"RocketPlayer_new", "RocketPlayer_get_track"}

InitPlayer ==
    /\ tracks = <<>>
    /\ ret = [op |-> "Vec_new", kind |-> "Ok"]
    /\ client = "None"
    /\ peer = "none"
    /\ state = ClientState_New
    /\ cmd = <<>>
    /\ inbox = <<>>
    /\ wire = <<>>
    /\ outbox = <<>>
    /\ sent = <<>>
    /\ pc = "idle"
    /\ io = "none"
    /\ events = <<>>
    /\ self_row = RInt(0)
    /\ tracker_row = 0
    /\ connection_attempted = 0
    /\ now = 0
    /\ lastAttempt = 0
    /\ lastTime = NONE
    /\ obs = Obs_Init

\* The application puts Track::new(name) on its list
List_push(name) ==
    /\ ~HasPlayer /\ Len(tracks) < MaxTracks
    /\ tracks' = Append(tracks, Track_new(name))
    /\ ret' = [op |-> "Vec_push", kind |-> "Ok"]
    /\ UNCHANGED << state, cmd, inbox, wire, peer, outbox, sent, pc, io,
                    events >>
    /\ UNCHANGED svars

\* The application sets a key on the i-th track of its list
List_set_key(i, value) ==
    /\ ~HasPlayer /\ i \in 1..Len(tracks)
    /\ tracks' = [tracks EXCEPT
                     ![i].keys = set_key(@, Key_new(1, value, "Step"))]
    /\ ret' = [op |-> "Track_set_key", kind |-> "Ok"]
    /\ UNCHANGED << state, cmd, inbox, wire, peer, outbox, sent, pc, io,
                    events >>
    /\ UNCHANGED svars

\* RocketPlayer::new(tracks)
Player_new ==
    /\ ~HasPlayer
    /\ ret' = [op |-> "RocketPlayer_new", kind |-> "Ok", from |-> "list",
               bytes |-> <<>>, player |-> RocketPlayer_new(tracks)]
    /\ UNCHANGED << state, cmd, tracks, inbox, wire, peer, outbox, sent, pc,
                    io, events >>
    /\ UNCHANGED svars

\* RocketPlayer::get_track(name)
Player_get_track(name) ==
    /\ HasPlayer
    /\ LET r == RocketPlayer_get_track(ret.player, name)
       IN  ret' = [op |-> "RocketPlayer_get_track", kind |-> r.kind,
                   name |-> name, track |-> r.track, player |-> ret.player]
    /\ UNCHANGED << state, cmd, tracks, inbox, wire, peer, outbox, sent, pc,
                    io, events >>
    /\ UNCHANGED svars

NextPlayer ==
    \/ \E name \in Names : List_push(name)
    \/ \E i \in 1..MaxTracks, value \in ListValues : List_set_key(i, value)
    \/ Player_new
    \/ \E name \in LookupNames : Player_get_track(name)

SpecPlayer == InitPlayer /\ [][NextPlayer]_vars

\* ------------------------------------------------------------------------
\* C24: RocketPlayer::get_track, under SpecPlayer
\* ------------------------------------------------------------------------
\* C24: player lookup.  get_track(name) on a player built from a track list
\* gives a track of the list with that name when the list has one, and None
\* when it has none; it never gives a track of another name.
C24_PlayerLookup ==
    Returned("RocketPlayer_get_track") =>
        /\ IF \E i \in 1..Len(tracks) : tracks[i].name = ret.name
           THEN /\ ret.kind = "Some"
                /\ \E i \in 1..Len(tracks) : tracks[i] = ret.track
           ELSE ret.kind = "None"
        /\ ret.kind = "Some" => ret.track.name = ret.name

\* C24 witness: the list has "a" (with a key) and "b"; get_track("a") gives
\* the track "a" with its key
C24_Witness ==
    /\ Returned("RocketPlayer_get_track")
    /\ Len(tracks) = 2 /\ tracks[1].name = <<97>> /\ tracks[2].name = <<98>>
    /\ tracks[1].keys # <<>>
    /\ ret.name = <<97>> /\ ret.kind = "Some" /\ ret.track = tracks[1]

\* ------------------------------------------------------------------------
\* C25: the order of processing, under Spec
\* ------------------------------------------------------------------------
\* The longest prefix of the frames fs that fits in n bytes
RECURSIVE FramesWithin(_, _)
FramesWithin(fs, n) ==
    IF fs = <<>> \/ Len(Head(fs)) > n THEN <<>>
    ELSE << Head(fs) >> \o FramesWithin(Tail(fs), n - Len(Head(fs)))

\* The frames the client has processed, in the order the tracker sent them:
\* those that lie before the bytes not yet read and the bytes in the buffer
FramesDone ==
    FramesWithin(sent, Len(Flatten(sent)) - Len(wire) - Len(inbox) - Len(cmd))

\* The events of the frames fs, in the order of the frames
RECURSIVE EventsOf(_)
EventsOf(fs) ==
    IF fs = <<>> THEN <<>>
    ELSE LET f == Head(fs)
         IN  (CASE f[1] = SET_ROW     -> << Event_SetRow(ReadU32(f, 1)) >>
                [] f[1] = PAUSE       -> << Event_Pause(f[2] = 1) >>
                [] f[1] = SAVE_TRACKS -> << Event_SaveTracks >>
                [] OTHER              -> <<>>)
             \o EventsOf(Tail(fs))

\* The tracks trs after the SET_KEY and DELETE_KEY frames among fs, applied
\* in the order of the frames
RECURSIVE MutationsOf(_, _)
MutationsOf(trs, fs) ==
    IF fs = <<>> THEN trs
    ELSE LET f == Head(fs)
             after ==
               CASE f[1] = SET_KEY ->
                      [trs EXCEPT ![ReadU32(f, 1) + 1].keys =
                          set_key(@, Key_new(ReadU32(f, 5),
                                             F32FromBits(SubSeq(f, 10, 13)),
                                             Interpolation_from(f[14])))]
                 [] f[1] = DELETE_KEY ->
                      [trs EXCEPT ![ReadU32(f, 1) + 1].keys =
                          delete_key(@, ReadU32(f, 5))]
                 [] OTHER -> trs
         IN  MutationsOf(after, Tail(fs))

\* C25: ordering guarantee.  Across any sequence of poll_events calls the
\* events returned are the events of the processed frames in the order the
\* tracker sent them, the tracks are what the mutations of the processed
\* frames give when applied in that order, and when an event is returned
\* its frame is the last one processed, so every mutation sent before it
\* has been applied.
C25_Ordering ==
    peer = "open" =>
        /\ events = EventsOf(FramesDone)
        /\ tracks = MutationsOf(Unkeyed(tracks), FramesDone)
        /\ (Returned("poll_events") /\ ret.kind = "Some") =>
              /\ FramesDone # <<>>
              /\ EventsOf(<< FramesDone[Len(FramesDone)] >>) = << ret.ev >>

\* C25 witness: the tracker sent a SET_KEY frame and then SET_ROW; the
\* event is returned and the key is on the track
C25_Witness ==
    /\ peer = "open" /\ Returned("poll_events") /\ ret.kind = "Some"
    /\ sent = << FrameSetKey(0, 1, F32_ONE, 1), FrameSetRow(2) >>
    /\ events = << Event_SetRow(2) >>
    /\ tracks[1].keys # <<>>

\* ------------------------------------------------------------------------
\* C26 to C28: Track::get_value and Track::set_key, under SpecTrack
\* ------------------------------------------------------------------------
\* C26: interpolated query.  On a track with two keys or more, get_value of
\* a row above the row of the first key and below the row of the last key,
\* whole or fractional, is lower.value + (higher.value - lower.value) *
\* interpolate(lower.interpolation, (row - lower.row) / (higher.row -
\* lower.row)) for the adjacent keys with lower.row <= floor(row) <
\* higher.row.
C26_InterpolatedQuery ==
    ( /\ Returned("Track_get_value") /\ Len(Keys) >= 2
      /\ RLt(RInt(Keys[1].row), ret.row)
      /\ RLt(ret.row, RInt(Keys[Len(Keys)].row)) )
    => \E i \in 1..(Len(Keys) - 1) :
          LET lower  == Keys[i]
              higher == Keys[i + 1]
              t == RDiv(RSub(ret.row, RInt(lower.row)),
                        RSub(RInt(higher.row), RInt(lower.row)))
          IN  /\ lower.row <= RFloor(ret.row)
              /\ RFloor(ret.row) < higher.row
              /\ ret.value =
                    RAdd(lower.value,
                         RMul(RSub(higher.value, lower.value),
                              interpolate(lower.interpolation, t)))

\* C27: lower-key rule.  get_value of a row between two adjacent keys depends
\* on the interpolation kind of the lower key only: giving the higher key any
\* other kind changes no get_value below the row of the higher key, and the
\* kind of the last key changes no get_value at all.
C27_LowerKeyRule ==
    Returned("Track_get_value") =>
        \A i \in 1..Len(Keys), kind \in Interpolations :
            (i = Len(Keys) \/ RLt(ret.row, RInt(Keys[i].row))) =>
                Track_get_value([Keys EXCEPT ![i].interpolation = kind],
                                ret.row) = ret.value

\* C27 witness: keys at rows 1 (Linear, value 1) and 3 (Step, value 2);
\* get_value(2) is 3/2
C27_Witness ==
    /\ Returned("Track_get_value")
    /\ Len(Keys) = 2
    /\ Keys[1] = Key_new(1, RInt(1), "Linear")
    /\ Keys[2] = Key_new(3, RInt(2), "Step")
    /\ ret.row = RInt(2) /\ ret.value = <<3, 2>>

\* ------------------------------------------------------------------------
\* One track under a sequence of set_key calls that is kept: SpecKeys.
\* ------------------------------------------------------------------------
MaxCalls == 3
CallInterpolations == {"Step", "Linear"}

InitKeys ==
    /\ tracks = << Track_new(<<97>>) >>
    /\ ret = [op |-> "Track_new", kind |-> "Ok"]
    /\ events = <<>>
    /\ client = "None"
    /\ peer = "none"
    /\ state = ClientState_New
    /\ cmd = <<>>
    /\ inbox = <<>>
    /\ wire = <<>>
    /\ outbox = <<>>
    /\ sent = <<>>
    /\ pc = "idle"
    /\ io = "none"
    /\ self_row = RInt(0)
    /\ tracker_row = 0
    /\ connection_attempted = 0
    /\ now = 0
    /\ lastAttempt = 0
    /\ lastTime = NONE
    /\ obs = Obs_Init

\* Track::set_key(Key::new(row, value, interp)), the call written down
Keys_set_key(row, value, interp) ==
    /\ Len(events) < MaxCalls
    /\ tracks' = [tracks EXCEPT
                     ![1].keys = set_key(@, Key_new(row, value, interp))]
    /\ ret' = [op |-> "Track_set_key", kind |-> "Ok",
               key |-> Key_new(row, value, interp),
               how |-> HowSet(tracks[1].keys, row)]
    /\ events' = Append(events, Key_new(row, value, interp))
    /\ UNCHANGED << state, cmd, inbox, wire, peer, outbox, sent, pc, io >>
    /\ UNCHANGED svars

NextKeys ==
    \E row \in TrackRows, value \in TrackValues,
       interp \in CallInterpolations : Keys_set_key(row, value, interp)

SpecKeys == InitKeys /\ [][NextKeys]_vars

\* The keys ks set one after the other, in the order order, on the keys acc
RECURSIVE SetAll(_, _, _)
SetAll(acc, ks, order) ==
    IF order = <<>> THEN acc
    ELSE SetAll(set_key(acc, ks[Head(order)]), ks, Tail(order))

\* All orders of 1..n, as sequences
Orders(n) ==
    { p \in [1..n -> 1..n] : \A i, j \in 1..n : i # j => p[i] # p[j] }

\* The last key of the calls ks that was written to row r
LastWritten(ks, r) ==
    ks[CHOOSE i \in 1..Len(ks) :
          /\ ks[i].row = r
          /\ \A j \in (i + 1)..Len(ks) : ks[j].row # r]

\* The last key written to each of the rows S, by ascending row
RECURSIVE AscendingLast(_, _)
AscendingLast(ks, S) ==
    IF S = {} THEN <<>>
    ELSE << LastWritten(ks, Min(S)) >> \o AscendingLast(ks, S \ {Min(S)})

\* C28: order independence of set_key.  Keys of pairwise distinct rows give
\* the same key sequence in whatever order set_key is applied to them; and
\* after any sequence of set_key calls the keys are, by ascending row, the
\* last key written to each row.
C28_OrderIndependence ==
    /\ Keys = AscendingLast(events, {events[i].row : i \in 1..Len(events)})
    /\ (\A i, j \in 1..Len(events) : i # j => events[i].row # events[j].row)
          => \A order \in Orders(Len(events)) :
                 SetAll(<<>>, events, order) = Keys

\* C28 witness: keys were set at rows 3, 1, 2 in that order; the track has
\* them at rows 1, 2, 3
C28_Witness ==
    /\ Returned("Track_set_key")
    /\ RowsOf(events) = <<3, 1, 2>>
    /\ RowsOf(Keys) = <<1, 2, 3>>

\* ------------------------------------------------------------------------
\* C29 and C30: what a frame and what get_track_mut change, under Spec
\* ------------------------------------------------------------------------
\* A step of poll_events that takes the last bytes of a frame off the
\* socket, so that the frame is handed to process_event
FrameRead ==
    /\ pc = "idle" /\ peer' = peer /\ sent' = sent
    /\ Pending # <<>>
    /\ Len(Pending) >= FrameLen(Pending[1])
    /\ Len(inbox') + Len(wire')
          = Len(inbox) + Len(wire) - (FrameLen(Pending[1]) - Len(cmd))

C29_Step ==
    FrameRead =>
        /\ pc' = "idle" /\ ret'.op = "poll_events"
        /\ cmd' = <<>> /\ state' = ClientState_New
        /\ Pending[1] \in {SET_KEY, DELETE_KEY} =>
              /\ ret'.kind = "None" /\ events' = events
              /\ Len(tracks') = Len(tracks)
              /\ \A j \in 1..Len(tracks) :
                    /\ tracks'[j].name = tracks[j].name
                    /\ j # ReadU32(Pending, 1) + 1 => tracks'[j] = tracks[j]
        /\ Pending[1] \in {SET_ROW, PAUSE, SAVE_TRACKS} =>
              /\ ret'.kind = "Some"
              /\ << ret'.ev >> = EventsOf(<< Take(Pending, FrameLen(Pending[1])) >>)
              /\ events' = Append(events, ret'.ev)
              /\ tracks' = tracks

\* C29: frame effect of decoded commands.  Processing a SET_KEY or
\* DELETE_KEY frame changes the addressed track only and returns no event;
\* processing a SET_ROW, PAUSE or SAVE_TRACKS frame returns its event and
\* changes no track; after processing any frame the buffer is empty and the
\* decoder awaits an opcode.
C29_FrameEffect == [][C29_Step]_vars

\* No element of the sequence s is there twice
NoRepeats(s) == \A i, j \in 1..Len(s) : i # j => s[i] # s[j]

\* A step that is a get_track_mut call returning Ok, or no step at all
GetTrackMutOk ==
    /\ ret'.op = "get_track_mut" /\ ret'.kind = "Ok"
    /\ pc' = pc /\ peer' = peer /\ sent' = sent
    /\ wire' = wire /\ inbox' = inbox

C30_Step ==
    GetTrackMutOk =>
        LET name == ret'.name
        IN  IF \E i \in 1..Len(tracks) : tracks[i].name = name
            THEN /\ outbox' = outbox
                 /\ tracks' = tracks
                 /\ tracks[ret'.idx + 1].name = name
            ELSE /\ outbox' = outbox \o GetTrackHeader(name) \o name
                 /\ TrackerNames(outbox') = Append(TrackerNames(outbox), name)
                 /\ tracks' = Append(tracks, Track_new(name))
                 /\ ret'.idx = Len(tracks)

\* C30: track names stay unique and GET_TRACK is sent at most once for a
\* name on a connection.  get_track_mut of a name not yet known sends exactly
\* one GET_TRACK and appends one empty track; get_track_mut of a known name
\* sends nothing, adds nothing and returns the track there is, its keys as
\* they were.
C30_GetTrackOnce ==
    /\ [](/\ NoRepeats([i \in 1..Len(tracks) |-> tracks[i].name])
          /\ NoRepeats(TrackerNames(outbox)))
    /\ [][C30_Step]_vars

\* C30 witness: get_track_mut of the first of two known tracks, which has a
\* key; one GET_TRACK was sent for each track
C30_Witness ==
    /\ Returned("get_track_mut") /\ ret.kind = "Ok" /\ ret.idx = 0
    /\ Len(tracks) = 2 /\ tracks[1].keys # <<>>
    /\ Len(TrackerNames(outbox)) = 2

\* ------------------------------------------------------------------------
\* The decoder over every kind of frame: SpecFrames
\*
\* A client that has requested the track "a" (index 0) receives up to
\* MaxDecodeFrames frames out of DecodeFrames, split into arrivals and reads
\* in every way.
\* ------------------------------------------------------------------------
MaxDecodeFrames == 2

PauseFlags == {0, 1, 2}
InterpolationBytes == {0, 1, 2, 3, 4}
OneByteOps == {SAVE_TRACKS, GET_TRACK, 255}

DecodeFrames ==
    {<<op>> : op \in OneByteOps}
      \cup {FramePause(b) : b \in PauseFlags}
      \cup {FrameSetRow(258)}
      \cup {FrameSetKey(0, 1, F32_ONE, b) : b \in InterpolationBytes}
      \cup {FrameDeleteKey(0, 1)}

InitFrames ==
    /\ state = ClientState_New
    /\ cmd = <<>>
    /\ tracks = << Track_new(<<97>>) >>
    /\ inbox = <<>>
    /\ wire = <<>>
    /\ peer = "open"
    /\ outbox = GetTrackHeader(<<97>>) \o <<97>>
    /\ sent = <<>>
    /\ pc = "idle"
    /\ io = "none"
    /\ ret = [op |-> "get_track_mut", kind |-> "Ok", name |-> <<97>>, idx |-> 0]
    /\ events = <<>>
    /\ client = "Some"
    /\ self_row = RInt(0)
    /\ tracker_row = 0
    /\ connection_attempted = 0
    /\ now = 0
    /\ lastAttempt = 0
    /\ lastTime = NONE
    /\ obs = Obs_Init

\* The tracker sends two frames back to back
ServerSendBurst(f, g) ==
    /\ pc # "aborted" /\ peer = "open" /\ wire = <<>>
    /\ Len(sent) + 2 <= MaxDecodeFrames
    /\ wire' = f \o g
    /\ sent' = sent \o << f, g >>
    /\ UNCHANGED << state, cmd, tracks, inbox, peer, outbox, pc, io, ret, events >>
    /\ UNCHANGED svars

BurstFrames == {FramePause(0), FrameSaveTracks}

NextFrames ==
    \/ \E f \in DecodeFrames : Len(sent) < MaxDecodeFrames /\ ServerSend(f)
    \/ \E f \in DecodeFrames, g \in BurstFrames : ServerSendBurst(f, g)
    \/ \E k \in 0..2 * (MAX_COMMAND_LEN + 1), m \in ReadSizes : poll_events(k, m)

SpecFrames == InitFrames /\ [][NextFrames]_vars

\* The bytes the step takes from the socket
BytesTaken == Len(inbox) + Len(wire) - Len(inbox') - Len(wire')

\* A poll_events call that returns and begins with the opcode byte of a frame
OpcodeRead ==
    /\ pc = "idle" /\ pc' = "idle"
    /\ state.tag = "New"
    /\ sent' = sent /\ peer' = peer
    /\ BytesTaken > 0

\* The body length of the frame length table
BodyLength(op) ==
    CASE op = 0 -> 13
      [] op = 1 -> 8
      [] op = 3 -> 4
      [] op = 4 -> 1
      [] OTHER  -> 0

\* C31: after the opcode byte the decoder waits for exactly 13 more bytes for
\* SET_KEY, 8 for DELETE_KEY, 4 for SET_ROW, 1 for PAUSE and none for
\* SAVE_TRACKS and every other byte value: a call that begins a frame takes
\* at most the opcode and that many bytes, is left waiting for the rest when
\* fewer arrived, and has handled the frame when all arrived; PAUSE decodes
\* to Pause(true) exactly when its flag byte is 1.
C31_Step ==
    OpcodeRead =>
        LET stream == inbox \o wire
            op == stream[1]
            need == BodyLength(op)
        IN  /\ BytesTaken <= 1 + need
            /\ IF BytesTaken = 1 + need
               THEN /\ state' = ClientState_New /\ cmd' = <<>>
                    /\ op = 4 =>
                         /\ ret'.kind = "Some"
                         /\ ret'.ev = Event_Pause(stream[2] = 1)
               ELSE /\ state' = ClientState_Incomplete(1 + need - BytesTaken)
                    /\ cmd' = Take(stream, BytesTaken)

C31_FrameLengths ==
    /\ [](\A op \in 0..255 :
            OpcodeState(op) = IF BodyLength(op) = 0 THEN ClientState_Complete
                              ELSE ClientState_Incomplete(BodyLength(op)))
    /\ [][C31_Step]_vars

\* A PAUSE frame whose flag byte is 2 has been decoded to Pause(false), after
\* a frame with an opcode the decoder does not know
C31_Witness ==
    /\ Returned("poll_events") /\ ret.kind = "Some"
    /\ ret.ev = Event_Pause(FALSE)
    /\ sent = << <<255>>, FramePause(2) >>
    /\ state = ClientState_New /\ cmd = <<>> /\ inbox = <<>> /\ wire = <<>>

\* The bytes of the stream the client has taken from the socket, and the
\* whole frames among them
StreamTaken == Len(Flatten(sent)) - Len(wire) - Len(inbox)
FramesTaken == FramesWithin(sent, StreamTaken)

\* A poll_events call that returns and begins while a body is awaited
BodyRead ==
    /\ pc = "idle" /\ pc' = "idle"
    /\ state.tag = "Incomplete"
    /\ sent' = sent /\ peer' = peer
    /\ BytesTaken > 0

\* RocketClient (client.rs): while a body is awaited the reads of a
\* call append to the buffer exactly the bytes they took from the stream, in
\* stream order, and lower the remaining count by their number; the frame is
\* ready when the buffer holds the opcode and the body, 1 + the body length
\* of the opcode in all, and it is that frame which is handled.  In every
\* state the buffer is the part taken so far of the frame the tracker sent.
Client_AccumulationStep ==
    BodyRead =>
        LET got == Take(inbox \o wire, BytesTaken)
            full == cmd \o got
        IN  /\ BytesTaken <= state.bytes
            /\ IF BytesTaken < state.bytes
               THEN /\ cmd' = full
                    /\ state' = ClientState_Incomplete(state.bytes - BytesTaken)
               ELSE /\ Len(full) = 1 + BodyLength(full[1])
                    /\ cmd' = <<>> /\ state' = ClientState_New
                    /\ events' = events \o EventsOf(<< full >>)
                    /\ tracks' = MutationsOf(tracks, << full >>)

Client_Buffer ==
    pc = "idle" =>
        LET part == StreamTaken - Len(Flatten(FramesTaken))
        IN  IF part = 0
            THEN state = ClientState_New /\ cmd = <<>>
            ELSE LET frame == sent[Len(FramesTaken) + 1]
                 IN  /\ cmd = Take(frame, part)
                     /\ state = ClientState_Incomplete(Len(frame) - part)

Client_Accumulation == []Client_Buffer /\ [][Client_AccumulationStep]_vars

\* After a DELETE_KEY frame, the opcode and eight body bytes of a SET_KEY
\* frame are in the buffer and the other five are awaited, not yet read
Client_Accumulation_Witness ==
    /\ Returned("poll_events") /\ ret.kind = "None"
    /\ sent = << FrameDeleteKey(0, 1), FrameSetKey(0, 1, F32_ONE, 2) >>
    /\ state = ClientState_Incomplete(5)
    /\ cmd = Take(FrameSetKey(0, 1, F32_ONE, 2), 9)
    /\ Len(inbox) + Len(wire) = 5

\* ------------------------------------------------------------------------
\* The decoder of the binary (src/src/main.rs): SpecMain
\*
\* Rocket::poll_events makes one transition per call and prints the command
\* it has decoded; read errors, would-block included, are ignored.
\* ------------------------------------------------------------------------
Zeros(n) == [i \in 1..n |-> 0]

\* The line printed for the buffer c (main.rs:88-116)
Main_Printed(c) ==
    CASE c[1] = 0 -> [cmd |-> "SET_KEY", track |-> ReadU32(c, 1),
                      row |-> ReadU32(c, 5), value |-> SubSeq(c, 10, 13),
                      interpolation |-> c[14]]
      [] c[1] = 1 -> [cmd |-> "DELETE_KEY", track |-> ReadU32(c, 1),
                      row |-> ReadU32(c, 5)]
      [] c[1] = 3 -> [cmd |-> "SET_ROW", row |-> ReadU32(c, 1)]
      [] c[1] = 4 -> [cmd |-> "PAUSE", flag |-> c[2]]
      [] c[1] = 5 -> [cmd |-> "SAVE_TRACKS"]
      [] OTHER    -> [cmd |-> "Unknown", op |-> c[1]]

\* Rocket::poll_events of main.rs on a socket that holds the bytes in; m is
\* the most bytes one read returns.  out is "Printed" with the line in
\* line, or "None".
Main_Rocket_poll_events(st, c, in, w, p, m) ==
    LET rd == ReadOutcome(in, w, p)
    IN  CASE st.tag = "New" ->
               IF rd = "data"
               THEN LET c2 == c \o Take(in, 1)
                    IN  [state |-> CASE c2[1] = 0 -> ClientState_Incomplete(4 + 4 + 4 + 1)
                                     [] c2[1] = 1 -> ClientState_Incomplete(4 + 4)
                                     [] c2[1] = 3 -> ClientState_Incomplete(4)
                                     [] c2[1] = 4 -> ClientState_Incomplete(1)
                                     [] c2[1] = 5 -> ClientState_Complete
                                     [] OTHER     -> ClientState_Complete,
                         cmd |-> c2, inbox |-> Drop(in, 1), out |-> "None",
                         line |-> <<>>]
               ELSE [state |-> st, cmd |-> c, inbox |-> in, out |-> "None",
                     line |-> <<>>]
          [] st.tag = "Incomplete" ->
               IF rd \in {"data", "eof"}
               THEN LET bytes == st.bytes
                        bytes_read == IF rd = "eof" THEN 0
                                      ELSE MinOf(MinOf(bytes, Len(in)), m)
                        buf == Take(in, bytes_read) \o Zeros(bytes - bytes_read)
                    IN  [state |-> IF bytes - bytes_read > 0
                                   THEN ClientState_Incomplete(bytes - bytes_read)
                                   ELSE ClientState_Complete,
                         cmd |-> c \o buf, inbox |-> Drop(in, bytes_read),
                         out |-> "None", line |-> <<>>]
               ELSE [state |-> st, cmd |-> c, inbox |-> in, out |-> "None",
                     line |-> <<>>]
          [] st.tag = "Complete" ->
               [state |-> ClientState_New, cmd |-> <<>>, inbox |-> in,
                out |-> "Printed", line |-> Main_Printed(c)]

Main_poll_events(k, m) ==
    /\ pc = "idle"
    /\ k \in 0..Len(wire)
    /\ LET r == Main_Rocket_poll_events(state, cmd, inbox \o Take(wire, k),
                                        Drop(wire, k), peer, m)
       IN  /\ wire' = Drop(wire, k)
           /\ state' = r.state /\ cmd' = r.cmd /\ inbox' = r.inbox
           /\ ret' = [op |-> "main_poll_events", kind |-> r.out,
                      line |-> r.line]
    /\ UNCHANGED << tracks, peer, outbox, sent, pc, io, events >>
    /\ UNCHANGED svars

MainFrames == {FrameSetRow(258), FramePause(1), FrameSaveTracks, <<GET_TRACK>>}

NextMain ==
    \/ \E f \in MainFrames : ServerSend(f)
    \/ \E k \in 0..1 + SET_ROW_LEN, m \in ReadSizes : Main_poll_events(k, m)

SpecMain == Init /\ [][NextMain]_vars

\* C32: partial-read accumulation.  While a body is awaited, each read
\* appends to the buffer exactly the bytes it returned, no more and no
\* fewer, and lowers the remaining count by their number, so that a frame
\* that is ready is the opcode byte followed by the body bytes in stream
\* order, 1 + the body length of the opcode in all.
C32_ReadStep ==
    (pc = "idle" /\ state.tag = "Incomplete" /\ sent' = sent /\ peer' = peer
       /\ ret'.op = "main_poll_events") =>
        LET got == Take(inbox \o wire, BytesTaken)
        IN  /\ cmd' = cmd \o got
            /\ BytesTaken <= state.bytes
            /\ state' = IF BytesTaken < state.bytes
                        THEN ClientState_Incomplete(state.bytes - BytesTaken)
                        ELSE ClientState_Complete
            /\ state'.tag = "Complete" => Len(cmd') = 1 + BodyLength(cmd'[1])

C32_PartialRead == [][C32_ReadStep]_vars

\* A poll_events call of the client whose last read reported would-block
WouldBlockCall ==
    /\ pc = "idle"
    /\ sent' = sent /\ peer' = peer
    /\ ret'.op = "poll_events"
    /\ io' = "wouldblock"

\* C33: would-block keeps the partial frame.  A poll_events call whose read
\* reports would-block returns None and changes no track; the decoder state,
\* the remaining count and the buffer are what the reads before it left, so
\* a call that finds nothing to read changes nothing at all and a later call
\* goes on with the same frame.
C33_Step ==
    WouldBlockCall =>
        /\ pc' = "idle" /\ ret'.kind = "None"
        /\ tracks' = tracks /\ events' = events
        /\ cmd' = cmd \o Take(inbox \o wire, BytesTaken)
        /\ BytesTaken = 0 => state' = state
        /\ state'.tag = "Incomplete" =>
              Len(cmd') + state'.bytes = 1 + BodyLength(cmd'[1])
        /\ state'.tag # "Complete"

C33_WouldBlock == [][C33_Step]_vars

\* A call found nothing to read while three bytes of a SET_ROW frame were in
\* the buffer: they are still there and two bytes are awaited
C33_Witness ==
    /\ Returned("poll_events") /\ ret.kind = "None" /\ io = "wouldblock"
    /\ sent = << FrameSetRow(258) >>
    /\ state = ClientState_Incomplete(2)
    /\ cmd = Take(FrameSetRow(258), 3)
    /\ inbox = <<>> /\ Len(wire) = 2

\* A step of the session that ends on a new connection
Reconnects == peer # "open" /\ peer' = "open"

\* C34: a dropped connection discards the partial frame.  After the session
\* has reconnected the decoder awaits an opcode with an empty buffer, and in
\* every state of a connection the buffer holds bytes of the frame in
\* progress on that connection only: no byte of an earlier connection is in
\* it.
C34_Buffer ==
    (client = "Some" /\ pc = "idle" /\ peer = "open") =>
        /\ \E f \in SessionFrames \cup {<<>>} :
              /\ Len(Pending) <= Len(f)
              /\ Pending = Take(f, Len(Pending))
        /\ IF cmd = <<>> THEN state = ClientState_New
           ELSE state = ClientState_Incomplete(1 + BodyLength(cmd[1]) - Len(cmd))

C34_Step ==
    Reconnects =>
        /\ client' = "Some"
        /\ state' = ClientState_New /\ cmd' = <<>>
        /\ inbox' = <<>> /\ wire' = <<>> /\ sent' = <<>>

C34_FreshDecoder == []C34_Buffer /\ [][C34_Step]_vars

\* The call began with a client, a read of it failed, and the same call
\* connected again: the new client awaits an opcode with an empty buffer
C34_Witness ==
    /\ obs.connected /\ obs.fault /\ obs.attempted
    /\ client = "Some" /\ peer = "open" /\ pc = "idle"
    /\ state = ClientState_New /\ cmd = <<>> /\ inbox = <<>>

\* ------------------------------------------------------------------------
\* The encoder of the client, and its bytes fed to the decoder: SpecEncoder
\*
\* The application calls set_row and get_track_mut; a peer sends the bytes
\* of a set_row back, and the client decodes them.
\* ------------------------------------------------------------------------
EncoderRows == {0, 258, 16909060, 2147483647}
EncoderNames == {<<>>, <<97>>, <<97, 98>>}

\* The peer sends back the bytes the set_row call before it wrote
Echo ==
    /\ pc = "idle" /\ peer = "open" /\ wire = <<>>
    /\ ret.op = "set_row" /\ ret.kind = "Ok"
    /\ Len(sent) < MaxFrames
    /\ LET bytes == Drop(outbox, Len(outbox) - (1 + SET_ROW_LEN))
       IN  wire' = bytes /\ sent' = Append(sent, bytes)
    /\ UNCHANGED << state, cmd, tracks, inbox, peer, outbox, pc, io, ret, events >>
    /\ UNCHANGED svars

NextEncoder ==
    \/ \E r \in EncoderRows : set_row(r)
    \/ \E name \in EncoderNames : get_track_mut(name, FALSE)
    \/ Echo
    \/ \E k \in 0..1 + SET_ROW_LEN, m \in ReadSizes : poll_events(k, m)

SpecEncoder == Init /\ [][NextEncoder]_vars

\* The u32 that the four bytes b make, most significant byte first
BigEndianValue(b) == b[1] * 16777216 + b[2] * 65536 + b[3] * 256 + b[4]

IsByte(x) == x \in 0..255

\* C35: encoder layout.  set_row(row) writes exactly 5 bytes, the opcode 3
\* and row as a big-endian u32; get_track_mut for a new name writes the
\* opcode 2, the byte length of the name as a big-endian u32, and then
\* exactly the bytes of the name; the bytes of set_row(row), fed to the
\* decoder, give SetRow(row).
C35_Step ==
    LET new == Drop(outbox', Len(outbox))
    IN  /\ (ret'.op = "set_row" /\ ret'.kind = "Ok" /\ sent' = sent
              /\ (ret' # ret \/ outbox' # outbox)) =>
              /\ Take(outbox', Len(outbox)) = outbox
              /\ Len(new) = 5
              /\ new[1] = 3
              /\ \A i \in 2..5 : IsByte(new[i])
              /\ BigEndianValue(Drop(new, 1)) = ret'.row
        /\ (ret'.op = "get_track_mut" /\ Len(tracks') > Len(tracks)) =>
              /\ Take(outbox', Len(outbox)) = outbox
              /\ Len(new) = 5 + Len(ret'.name)
              /\ new[1] = 2
              /\ \A i \in 2..5 : IsByte(new[i])
              /\ BigEndianValue(SubSeq(new, 2, 5)) = Len(ret'.name)
              /\ Drop(new, 5) = ret'.name

C35_RoundTrip ==
    (peer = "open" /\ pc = "idle") =>
        events = [i \in 1..Len(FramesTaken) |->
                     Event_SetRow(BigEndianValue(Drop(FramesTaken[i], 1)))]

C35_EncoderLayout == []C35_RoundTrip /\ [][C35_Step]_vars

\* set_row(16909060) wrote 03 01 02 03 04 after the GET_TRACK of a two-byte
\* name, and the client decoded the bytes to SetRow(16909060)
C35_Witness ==
    /\ Returned("poll_events") /\ ret.kind = "Some"
    /\ ret.ev = Event_SetRow(16909060)
    /\ outbox = << 2, 0, 0, 0, 2, 97, 98, 3, 1, 2, 3, 4 >>
    /\ sent = << << 3, 1, 2, 3, 4 >> >>

\* The interpolation kinds by their number in the protocol
KindOfByte(b) ==
    IF b = 1 THEN "Linear" ELSE IF b = 2 THEN "Smooth"
    ELSE IF b = 3 THEN "Ramp" ELSE "Step"

\* A poll_events call that takes the last byte of a SET_KEY frame
SetKeyRead ==
    /\ pc = "idle"
    /\ sent' = sent /\ peer' = peer
    /\ BytesTaken > 0
    /\ Len(cmd) + BytesTaken = 1 + BodyLength(0)
    /\ (cmd \o inbox \o wire)[1] = 0

\* C36: interpolation decoding is total.  A SET_KEY frame whose
\* interpolation byte is 0, 1, 2 or 3 stores a key with Step, Linear, Smooth
\* or Ramp, any other byte stores a Step key, and the frame is never
\* rejected because of that byte: the call returns None and the key is on
\* the track.
C36_Step ==
    SetKeyRead =>
        LET frame == Take(cmd \o inbox \o wire, 14)
            index == BigEndianValue(SubSeq(frame, 2, 5))
            row == BigEndianValue(SubSeq(frame, 6, 9))
        IN  /\ pc' = "idle"
            /\ ret' = Ret("poll_events", "None")
            /\ state' = ClientState_New /\ cmd' = <<>>
            /\ \E i \in 1..Len(tracks'[index + 1].keys) :
                  LET key == tracks'[index + 1].keys[i]
                  IN  /\ key.row = row
                      /\ key.interpolation = KindOfByte(frame[14])
                      /\ key.interpolation \in {"Step", "Linear", "Smooth", "Ramp"}

C36_InterpolationTotal ==
    /\ [](\A b \in 0..255 : Interpolation_from(b) = KindOfByte(b))
    /\ [][C36_Step]_vars

\* A SET_KEY frame with the interpolation byte 4 has stored a Step key, in
\* place of the Ramp key the frame before it had stored at the same row
C36_Witness ==
    /\ Returned("poll_events") /\ ret.kind = "None"
    /\ sent = << FrameSetKey(0, 1, F32_ONE, 3), FrameSetKey(0, 1, F32_ONE, 4) >>
    /\ state = ClientState_New /\ cmd = <<>> /\ inbox = <<>> /\ wire = <<>>
    /\ Len(tracks[1].keys) = 1
    /\ tracks[1].keys[1].interpolation = "Step"

\* ------------------------------------------------------------------------
\* The client and a tracker that keeps to the protocol: SpecConformant
\*
\* The tracker numbers the tracks by the GET_TRACK requests it has received
\* on the connection, and sends SET_KEY and DELETE_KEY for those only.
\* ------------------------------------------------------------------------
Conformant(f) ==
    f[1] \in {SET_KEY, DELETE_KEY} =>
        BigEndianValue(SubSeq(f, 2, 5)) < Len(TrackerNames(outbox))

NextConformant ==
    \/ \E f \in ServerFrames : Conformant(f) /\ ServerSend(f)
    \/ ServerClose
    \/ ConnReset
    \/ \E name \in Names, brk \in BOOLEAN : get_track_mut(name, brk)
    \/ \E row \in ClientRows : set_row(row)
    \/ \E k \in 0..(1 + MAX_COMMAND_LEN), m \in ReadSizes : poll_events(k, m)
    \/ poll_events_reset

SpecConformant == Init /\ [][NextConformant]_vars

\* C37: with a tracker that sends SET_KEY and DELETE_KEY only for track
\* indices it has received a GET_TRACK for on the connection, in every
\* interleaving of get_track_mut, set_row, poll_events and the tracker's
\* frames, the index of every such frame is smaller than the number of local
\* tracks from the moment it is sent, so also when it is processed: no
\* poll_events call indexes past the track list.
C37_IndexInRange ==
    /\ pc # "aborted"
    /\ \A i \in 1..Len(sent) :
          sent[i][1] \in {SET_KEY, DELETE_KEY} =>
              BigEndianValue(SubSeq(sent[i], 2, 5)) < Len(tracks)

\* A SET_KEY frame for index 1, sent after the second GET_TRACK and before a
\* DELETE_KEY frame for index 0, has been processed: its key is on the second
\* track
C37_Witness ==
    /\ pc = "idle" /\ Len(tracks) = 2
    /\ sent = << FrameSetKey(1, 3, F32_TWO, 7), FrameDeleteKey(0, 1) >>
    /\ Len(tracks[2].keys) = 1
    /\ Pending = <<>> \/ Pending = FrameDeleteKey(0, 1)

\* C38: for every byte stream the tracker can send after the handshake,
\* SET_KEY and DELETE_KEY frames for an index no local track has included,
\* poll_events never aborts the program: the call ends by returning None, an
\* event or an Error.
C38_NeverAborts == pc # "aborted"

\* C39: decoder well-formedness.  In every reachable state of the client,
\* awaiting an opcode implies that the buffer is empty; Incomplete(n)
\* implies 1 <= n <= 13 and buffer length + n = 1 + the body length of the
\* buffered opcode; Complete implies that the buffer holds a whole frame.
\* So the parsing of process_event never runs out of bytes: the one way a
\* call does not come back from it is the track index of a whole SET_KEY or
\* DELETE_KEY frame.
C39_WellFormed ==
    /\ state.tag \in {"New", "Incomplete", "Complete"}
    /\ state.tag = "New" => cmd = <<>>
    /\ state.tag = "Incomplete" =>
          /\ 1 <= state.bytes /\ state.bytes <= 13
          /\ cmd # <<>>
          /\ Len(cmd) + state.bytes = 1 + BodyLength(cmd[1])
    /\ state.tag = "Complete" =>
          /\ cmd # <<>>
          /\ Len(cmd) = 1 + BodyLength(cmd[1])
    /\ pc = "aborted" =>
          /\ state.tag = "Complete"
          /\ cmd[1] \in {0, 1}
          /\ BigEndianValue(SubSeq(cmd, 2, 5)) >= Len(tracks)

\* The opcode of a SET_KEY frame has been read and nothing of its body:
\* thirteen bytes are awaited
C39_Witness ==
    /\ pc = "idle"
    /\ state = ClientState_Incomplete(13)
    /\ cmd = << 0 >>
    /\ Len(inbox) + Len(wire) = 13

\* C40: a failed GET_TRACK leaves the track list unchanged.  When the write
\* of the GET_TRACK header or of the name fails, get_track_mut returns an
\* error, no track is appended, and every track there is stays at its index
\* with its keys.
C40_Step ==
    /\ (ret'.op = "get_track_mut" /\ ret'.kind = "Err") => tracks' = tracks
    /\ (ret'.op = "get_track_mut" /\ peer = "reset"
          /\ \A i \in 1..Len(tracks) : tracks[i].name # ret'.name) =>
          /\ ret'.kind = "Err"
          /\ outbox' = outbox
    /\ (ret'.op = "get_track_mut"
          /\ Len(outbox') = Len(outbox) + 1 + GET_TRACK_LEN) =>
          /\ ret'.kind = "Err"
          /\ tracks' = tracks
          /\ \A i \in 1..Len(tracks) : tracks[i].name # ret'.name

C40_FailedGetTrack == [][C40_Step]_vars

\* The write of the name of a second track has failed after its header was
\* written: the first track is alone in the list, with its key
C40_Witness ==
    /\ Returned("get_track_mut") /\ ret.kind = "Err"
    /\ Len(tracks) = 1 /\ tracks[1].keys # <<>>
    /\ ret.name # tracks[1].name
    /\ Len(outbox) = 2 * (1 + GET_TRACK_LEN) + 1
    /\ peer = "reset"

====
